---- MODULE Spec2Model ----
(***************************************************************************)
(* A model of the notionManage scripts: the page embedder of               *)
(* file_viewer.py (scan of the marker section, deletion, block synthesis,  *)
(* append), the row migrator, and the attachment resolvers of main.py,     *)
(* notion_file_manager.py, github_sync.py and file_viewer.py.              *)
(*                                                                         *)
(* Strings the code only searches are modelled by what the searches see:   *)
(* a URL is the set of the patterns that occur in it plus a number that    *)
(* tells two URLs of the same shape apart; a MIME type is its major and    *)
(* minor part.                                                             *)
(***************************************************************************)
EXTENDS Integers, Sequences, FiniteSets, TLC

VARIABLES
    rows,        \* the source table: sequence of rows [id, files]
    store,       \* Notion block children: page id -> sequence of stored blocks
    gdrive,      \* self.google_drive_client is set
    driveFiles,  \* Google Drive: the uploaded files, file id = index
    nextBlock,   \* Notion's next fresh block id
    pc,          \* position of embed_files_to_notion_pages
    idx,         \* index of the loop over page_files
    runsLeft,    \* invocations of the embedder still to come
    pageFiles,   \* page_files of the current run: sequence of [page_id, files]
    processed,   \* processed_pages of the current run
    fetchLog,    \* pages whose block children were requested in this run
    deleteLog,   \* delete_block requests of this run: [page, id, ok]
    appendLog,   \* append_blocks requests of this run: [page, blocks, ok]
    history,     \* the store as it was when each run returned
    faults,      \* failures the environment has produced so far
    migRows,     \* the rows migrate_and_copy_with_file_link reads: [id, props]
    destKeys,    \* data_manage_keys: the property names of the destination
    uploadKey,   \* self.uploadform_tablekey.get of the upload column, or "none"
    migPc,       \* position of migrate_and_copy_with_file_link
    migIdx,      \* index of its loop over the rows
    copied,      \* copied_count
    dest,        \* the destination table: the pages created, [from, props]
    attemptLog,  \* the rows whose pass of the loop began: [id, ok]
    resFiles,    \* the files property a resolver is run on
    resOut,      \* what the resolver did: "none" or [by, files, per, blocks]
    synFile,     \* the file_data create_file_blocks_for_notion is called with
    synOut,      \* what it returned: [done, url, preview, blocks]
    catName,     \* the file name get_file_category is called with, as characters
    catOut,      \* what the copies of get_file_category returned
    moved_count, \* moved_count of migrate_nonfile_properties
    deleteReqs,  \* the source pages a delete request was sent for: [id, ok]
    srcLive,     \* the ids of the pages the source table holds
    pageData,    \* page_data of add_to_data_manage: the properties of the row
    manageTypes, \* the keys of data_manage_types: the destination's columns
    properties,  \* the properties of the payload add_to_data_manage posts
    blockList,   \* a block list to send, each block known by its number
    sentChildren,\* the children of the requests sent for it, in order
    chunkBy,     \* the handler that sent them, or "none"
    listing,     \* a list Notion holds (rows of a table, children of a block)
    queried,     \* what query_database returned for it: [done, results]
    childPc,     \* position of get_all_block_children
    start_cursor,\* its start_cursor: 0 for None, else the place to go on from
    all_children,\* its all_blocks
    env,         \* the environment variables that are set to a usable value
    ran,         \* the entry point that ran and its arguments: [entry, database_id, embed]
    sentRequests \* the requests it sent to Notion, up to and including the row query

embedState == <<rows, store, nextBlock, pc, idx, runsLeft, pageFiles, processed,
                fetchLog, deleteLog, appendLog, history>>
migVars == <<migRows, destKeys, uploadKey, migPc, migIdx, copied, dest, attemptLog>>
resVars == <<resFiles, resOut>>
fnVars == <<synFile, synOut, catName, catOut>>
moveVars == <<moved_count, deleteReqs, srcLive>>
propVars == <<pageData, manageTypes, properties>>
chunkVars == <<blockList, sentChildren, chunkBy>>
pagingVars == <<listing, queried, childPc, start_cursor, all_children>>
configVars == <<env, ran, sentRequests>>
restVars == <<chunkVars, pagingVars, configVars>>
otherVars == <<moveVars, propVars, restVars>>
vars == <<embedState, gdrive, driveFiles, faults, migVars, resVars, fnVars, otherVars>>

(***************************************************************************)
(* Bounds of the model.                                                    *)
(***************************************************************************)
MaxFiles == 2
MaxBlocks == 3
MaxRuns == 2
MaxFaults == 1
MaxRows == 2
MaxPatterns == 2
MaxStem == 1
MaxSynth == 104

MaxEntries == 204

\* the number of children Notion takes in one request, as main.py has it
ChildrenLimit == 100

\* page_size of get_block_children, which is also what Notion returns at most
PageSize == 100

(***************************************************************************)
(* Sequence helpers.                                                       *)
(***************************************************************************)
RECURSIVE SeqsUpTo(_, _)
SeqsUpTo(S, n) ==
    IF n = 0 THEN {<<>>}
    ELSE LET shorter == SeqsUpTo(S, n - 1)
         IN shorter \cup {Append(s, x) : s \in {t \in shorter : Len(t) = n - 1}, x \in S}

Range(s) == {s[i] : i \in 1..Len(s)}

\* the subsets of S with at most k elements
RECURSIVE SubsetsUpTo(_, _)
SubsetsUpTo(S, k) ==
    IF k <= 0 THEN {{}}
    ELSE LET smaller == SubsetsUpTo(S, k - 1)
         IN smaller \cup {s \cup {x} : s \in smaller, x \in S}

RECURSIVE Flatten(_)
Flatten(ss) == IF ss = <<>> THEN <<>> ELSE Head(ss) \o Flatten(Tail(ss))

RECURSIVE Filter(_, _)
Filter(s, keep) ==
    IF s = <<>> THEN <<>>
    ELSE (IF Head(s) \in keep THEN <<Head(s)>> ELSE <<>>) \o Filter(Tail(s), keep)

(***************************************************************************)
(* URLs.  has = the searched patterns occurring in the URL string.         *)
(***************************************************************************)
Url(has, n) == [has |-> has, n |-> n]
EmptyUrl == Url({}, 0)

\* a Notion-hosted S3 link carrying an expiry parameter
S3Expiring(n) == Url({"prod-files-secure.s3", "X-Amz-Expires"}, n)
\* a Notion-hosted S3 link without an expiry parameter
S3Plain(n) == Url({"prod-files-secure.s3"}, n)
\* a permanent external link whose path ends in an image extension
ExtImage(n) == Url({"ends .png"}, n)
\* a permanent external link of no known shape
ExtPlain(n) == Url({}, n)
\* an external link that quotes an expiring S3 link
ExtLooksExpiring(n) == Url({"prod-files-secure.s3", "expiry_time"}, n)
ExtYoutube(n) == Url({"youtube.com"}, n)

\* the test without its look at the expiry parameters
is_temporary_notion_url_any_s3(url) ==
    /\ url # EmptyUrl
    /\ "prod-files-secure.s3" \in url.has

is_temporary_notion_url(url) ==
    /\ url # EmptyUrl
    /\ "prod-files-secure.s3" \in url.has
    /\ ("X-Amz-Expires" \in url.has \/ "expiry_time" \in url.has)

(***************************************************************************)
(* File names and MIME types.                                              *)
(***************************************************************************)
Mime(major, minor) == [major |-> major, minor |-> minor]

\* mimetypes.guess_type by extension, then the extension lists of the code
_guess_file_type(file_name) ==
    CASE file_name = "photo.png" -> Mime("image", "png")
      [] file_name = "a.mp4"     -> Mime("video", "mp4")
      [] file_name = "b.mp3"     -> Mime("audio", "mpeg")
      [] file_name = "doc.pdf"   -> Mime("application", "pdf")
      [] OTHER                   -> Mime("application", "octet-stream")

\* the test  "image" in file_type
MimeHas(t, word) == t.major = word

(***************************************************************************)
(* is_previewable_url: the rules in the order of the code.  The three      *)
(* extension rules are written r"\\.(jpg|...)(\\?|$)": a backslash, any     *)
(* character, the extension; they do not read a path ending in ".png".     *)
(***************************************************************************)
\* re.search(pattern, url) for a rule whose pattern is an alternation
Hits(url, alternatives) == url.has \cap alternatives # {}

\* the rules with the image extension looked at before the hosts
is_previewable_url_extension_first(url) ==
    IF Hits(url, {"backslash any jpg"}) THEN "image"
    ELSE IF Hits(url, {"drive.google.com/.+/preview"}) THEN "embed"
    ELSE IF Hits(url, {"drive.google.com/uc?export=view&id="}) THEN "embed"
    ELSE IF Hits(url, {"youtube.com", "youtu.be"}) THEN "video"
    ELSE IF Hits(url, {"vimeo.com"}) THEN "video"
    ELSE IF Hits(url, {"imgur.com", "unsplash.com"}) THEN "image"
    ELSE IF Hits(url, {"dropbox.com"}) THEN "image"
    ELSE IF Hits(url, {"twitter.com", "soundcloud.com"}) THEN "embed"
    ELSE IF Hits(url, {"backslash any mp4"}) THEN "video"
    ELSE IF Hits(url, {"backslash any mp3"}) THEN "embed"
    ELSE ""

is_previewable_url(url) ==
    IF Hits(url, {"drive.google.com/.+/preview"}) THEN "embed"
    ELSE IF Hits(url, {"drive.google.com/uc?export=view&id="}) THEN "embed"
    ELSE IF Hits(url, {"youtube.com", "youtu.be"}) THEN "video"
    ELSE IF Hits(url, {"vimeo.com"}) THEN "video"
    ELSE IF Hits(url, {"imgur.com", "unsplash.com"}) THEN "image"
    ELSE IF Hits(url, {"dropbox.com"}) THEN "image"
    ELSE IF Hits(url, {"twitter.com", "soundcloud.com"}) THEN "embed"
    ELSE IF Hits(url, {"backslash any jpg"}) THEN "image"
    ELSE IF Hits(url, {"backslash any mp4"}) THEN "video"
    ELSE IF Hits(url, {"backslash any mp3"}) THEN "embed"
    ELSE ""

(***************************************************************************)
(* Blocks.  A block as sent to or read from Notion: its type, the          *)
(* plain_text of each rich_text element (headings, paragraphs), the file   *)
(* name a link label quotes, and its URL.  A stored block also has an id.  *)
(***************************************************************************)
embed_marker == "embed marker"

Block(type, texts, name, url) == [type |-> type, texts |-> texts, name |-> name, url |-> url]
Stored(id, b) == [id |-> id, type |-> b.type, texts |-> b.texts, name |-> b.name, url |-> b.url]
Content(sb) == Block(sb.type, sb.texts, sb.name, sb.url)

header_block == Block("heading_3", <<embed_marker>>, "", EmptyUrl)
divider_block == Block("divider", <<>>, "", EmptyUrl)

HeadingTypes == {"heading_1", "heading_2", "heading_3"}

\* a scan that takes every heading_3 for the marker
IsMarkerHeadingAnyText(b) == b.type = "heading_3"

\* heading_3 with a rich_text element whose plain_text is the marker
IsMarkerHeading(b) ==
    /\ b.type = "heading_3"
    /\ \E i \in 1..Len(b.texts) : b.texts[i] = embed_marker

\* a heading with rich_text, none of it the marker: it ends the section
EndsSection(b) ==
    /\ b.type \in HeadingTypes
    /\ b.texts # <<>>
    /\ \A i \in 1..Len(b.texts) : b.texts[i] # embed_marker

(***************************************************************************)
(* _check_existing_embed_blocks: one pass over the block children.         *)
(* scan = [in_embed_section, has_embed_content, blocks_to_delete].         *)
(***************************************************************************)
ScanStep(scan, b) ==
    IF IsMarkerHeading(b)
    THEN [in_embed_section |-> TRUE, has_embed_content |-> TRUE,
          blocks_to_delete |-> Append(scan.blocks_to_delete, b.id)]
    ELSE IF scan.in_embed_section
    THEN [in_embed_section |-> ~EndsSection(b),
          has_embed_content |-> scan.has_embed_content,
          blocks_to_delete |-> Append(scan.blocks_to_delete, b.id)]
    ELSE scan

RECURSIVE ScanFrom(_, _, _)
ScanFrom(blocks, i, scan) ==
    IF i > Len(blocks) THEN scan
    ELSE ScanFrom(blocks, i + 1, ScanStep(scan, blocks[i]))

_check_existing_embed_blocks(existing_blocks) ==
    ScanFrom(existing_blocks, 1,
             [in_embed_section |-> FALSE, has_embed_content |-> FALSE,
              blocks_to_delete |-> <<>>])

(***************************************************************************)
(* Attachments.  A file object of a files property is [name, type, url]    *)
(* with type "external" or "file"; file_data is what get_upload_files      *)
(* makes of it.                                                            *)
(***************************************************************************)
FileObj(name, type, url) == [name |-> name, type |-> type, url |-> url]

get_file_url(file_object) ==
    IF file_object.type \in {"external", "file"} THEN file_object.url ELSE EmptyUrl

FileData(page_id, file_obj) ==
    [page_id |-> page_id, name |-> file_obj.name, url |-> get_file_url(file_obj),
     type |-> _guess_file_type(file_obj.name)]

\* the files of one row when the URL is not looked at
RECURSIVE RowFileDataAll(_, _)
RowFileDataAll(page_id, files) ==
    IF files = <<>> THEN <<>>
    ELSE <<FileData(page_id, Head(files))>> \o RowFileDataAll(page_id, Tail(files))

\* the files of one row that get_upload_files keeps: those with a URL
RECURSIVE RowFileData(_, _)
RowFileData(page_id, files) ==
    IF files = <<>> THEN <<>>
    ELSE (IF get_file_url(Head(files)) # EmptyUrl
          THEN <<FileData(page_id, Head(files))>> ELSE <<>>)
         \o RowFileData(page_id, Tail(files))

\* get_upload_files: the file_data of all rows, in row order
RECURSIVE get_upload_files(_)
get_upload_files(rs) ==
    IF rs = <<>> THEN <<>>
    ELSE RowFileData(Head(rs).id, Head(rs).files) \o get_upload_files(Tail(rs))

\* a grouping that puts each file in front of its page's list
RECURSIVE GroupByPagePrepend(_, _)
GroupByPagePrepend(files, groups) ==
    IF files = <<>> THEN groups
    ELSE LET f == Head(files)
             at == {i \in 1..Len(groups) : groups[i].page_id = f.page_id}
         IN GroupByPagePrepend(Tail(files),
              IF at = {}
              THEN Append(groups, [page_id |-> f.page_id, files |-> <<f>>])
              ELSE LET i == CHOOSE j \in at : TRUE
                   IN [groups EXCEPT ![i].files = <<f>> \o @])

\* the grouping of embed_files_to_notion_pages: a dict in insertion order
RECURSIVE GroupByPage(_, _)
GroupByPage(files, groups) ==
    IF files = <<>> THEN groups
    ELSE LET f == Head(files)
             at == {i \in 1..Len(groups) : groups[i].page_id = f.page_id}
         IN GroupByPage(Tail(files),
              IF at = {}
              THEN Append(groups, [page_id |-> f.page_id, files |-> <<f>>])
              ELSE LET i == CHOOSE j \in at : TRUE
                   IN [groups EXCEPT ![i].files = Append(@, f)])

(***************************************************************************)
(* Google Drive.  upload_file_from_url downloads the URL, creates the      *)
(* file, opens its permission and formats the embed URL by MIME type.      *)
(* outcome: "ok"; "download_fail" and "upload_fail" (urlopen or            *)
(* files().create raised, nothing is stored); "perm_fail" (the file is     *)
(* stored, permissions().create raised).                                   *)
(***************************************************************************)
UploadOutcomes == {"ok", "download_fail", "upload_fail", "perm_fail"}

\* the requests a download and re-upload sends before it ends with outcome
Request(op, ok) == [op |-> op, ok |-> ok]
Requests(outcome) ==
    IF outcome = "download_fail" THEN <<Request("download", FALSE)>>
    ELSE IF outcome = "upload_fail"
    THEN <<Request("download", TRUE), Request("upload", FALSE)>>
    ELSE IF outcome = "perm_fail"
    THEN <<Request("download", TRUE), Request("upload", TRUE), Request("permission", FALSE)>>
    ELSE <<Request("download", TRUE), Request("upload", TRUE)>>

DriveEmbedUrl(file_id, mime_type) ==
    IF MimeHas(mime_type, "image")
    THEN Url({"drive.google.com/uc?export=view&id="}, file_id)
    ELSE IF MimeHas(mime_type, "video") \/ MimeHas(mime_type, "audio")
    THEN Url({"drive.google.com/.+/preview"}, file_id)
    ELSE Url({"drive.google.com/file/d/.../view"}, file_id)

IsDriveUrl(url) ==
    url.has \cap {"drive.google.com/uc?export=view&id=", "drive.google.com/.+/preview",
                  "drive.google.com/file/d/.../view"} # {}

\* Drive after one upload_file_from_url call
DriveAfter(drive, file_data, outcome) ==
    IF outcome \in {"ok", "perm_fail"}
    THEN Append(drive, [name |-> file_data.name, src |-> file_data.url])
    ELSE drive

\* _upload_to_drive: the URL create_file_blocks_for_notion goes on with
_upload_to_drive(file_data, client, drive, outcome) ==
    IF ~client THEN file_data.url
    ELSE IF outcome = "ok" THEN DriveEmbedUrl(Len(drive) + 1, file_data.type)
    ELSE file_data.url

(***************************************************************************)
(* create_file_blocks_for_notion, given the URL _upload_to_drive left.     *)
(***************************************************************************)
\* a link whose text does not hold the file name
LinkBlockUnnamed(label, file_name, url) == Block("paragraph", <<label>>, "", url)

LinkBlock(label, file_name, url) == Block("paragraph", <<label>>, file_name, url)
MediaBlock(type, url) == Block(type, <<>>, "", url)

\* the blocks when the embed affordance is not looked at
create_file_blocks_without_embed(file_data, file_url) ==
    LET preview_type == is_previewable_url(file_url)
    IN IF MimeHas(file_data.type, "image")
       THEN IF preview_type = "image" THEN <<MediaBlock("image", file_url)>>
            ELSE <<LinkBlock("image: {name}", file_data.name, file_url)>>
       ELSE IF MimeHas(file_data.type, "video")
       THEN IF preview_type = "video" THEN <<MediaBlock("video", file_url)>>
            ELSE <<LinkBlock("open video: {name}", file_data.name, file_url)>>
       ELSE IF MimeHas(file_data.type, "audio")
       THEN <<LinkBlock("play audio: {name}", file_data.name, file_url),
              MediaBlock("embed", file_url)>>
       ELSE <<LinkBlock("download {name}", file_data.name, file_url)>>

create_file_blocks_for_notion(file_data, file_url) ==
    LET preview_type == is_previewable_url(file_url)
    IN IF MimeHas(file_data.type, "image")
       THEN IF preview_type = "image" THEN <<MediaBlock("image", file_url)>>
            ELSE IF preview_type = "embed" THEN <<MediaBlock("embed", file_url)>>
            ELSE <<LinkBlock("image: {name}", file_data.name, file_url)>>
       ELSE IF MimeHas(file_data.type, "video")
       THEN IF preview_type = "video" THEN <<MediaBlock("video", file_url)>>
            ELSE IF preview_type = "embed" THEN <<MediaBlock("embed", file_url)>>
            ELSE <<LinkBlock("open video: {name}", file_data.name, file_url)>>
       ELSE IF MimeHas(file_data.type, "audio")
       THEN <<LinkBlock("play audio: {name}", file_data.name, file_url),
              MediaBlock("embed", file_url)>>
       ELSE <<LinkBlock("download {name}", file_data.name, file_url)>>

\* the separator test of the loop:  file_data != file_list[-1]
NeedsDivider(file_list, i) == file_list[i] # file_list[Len(file_list)]

(***************************************************************************)
(* The loop over file_list of embed_files_to_notion_pages: the blocks      *)
(* after the header and Drive after the uploads.  outcomes[i] is what the  *)
(* upload of file i meets.                                                 *)
(***************************************************************************)
RECURSIVE FileLoop(_, _, _, _, _, _)
FileLoop(file_list, i, client, drive, outcomes, blocks) ==
    IF i > Len(file_list) THEN [blocks |-> blocks, drive |-> drive]
    ELSE LET fd == file_list[i]
             url == _upload_to_drive(fd, client, drive, outcomes[i])
             sep == IF NeedsDivider(file_list, i) THEN <<divider_block>> ELSE <<>>
         IN FileLoop(file_list, i + 1, client,
                     IF client THEN DriveAfter(drive, fd, outcomes[i]) ELSE drive,
                     outcomes,
                     blocks \o create_file_blocks_for_notion(fd, url) \o sep)

all_blocks(file_list, client, drive, outcomes) ==
    FileLoop(file_list, 1, client, drive, outcomes, <<header_block>>)

(***************************************************************************)
(* The Notion store.                                                       *)
(***************************************************************************)
PageIds == {"p1", "p2"}

\* the children of a page after the delete_block calls that succeeded
AfterDeletes(blocks, deleted) ==
    LET RECURSIVE Keep(_)
        Keep(bs) == IF bs = <<>> THEN <<>>
                    ELSE (IF Head(bs).id \in deleted THEN <<>> ELSE <<Head(bs)>>)
                         \o Keep(Tail(bs))
    IN Keep(blocks)

\* the children of a page after a successful append: Notion numbers the blocks
AfterAppend(blocks, new, first_id) ==
    blocks \o [i \in 1..Len(new) |-> Stored(first_id + i - 1, new[i])]

\* _remove_existing_embed_blocks: the ids it sends to delete_block
ToDelete(blocks) ==
    LET scan == _check_existing_embed_blocks(blocks)
    IN IF scan.has_embed_content /\ scan.blocks_to_delete # <<>>
       THEN scan.blocks_to_delete ELSE <<>>

\* an exception that leaves the loop
AfterPageFailureAbort(i, n) == n + 1

\* the except clause of the page loop: where the loop goes on after a failure
AfterPageFailure(i, n) == i + 1

\* what embed_files_to_notion_pages adds to processed_pages after append_blocks
ProcessedAfterAppend(done, page_id, append_ok) == Append(done, page_id)

\* the upload outcomes of a file list: no upload is tried without a client
UploadChoices(file_list, client) ==
    IF client THEN [1..Len(file_list) -> UploadOutcomes]
    ELSE {[i \in 1..Len(file_list) |-> "ok"]}

FailedUploads(outcomes, client) ==
    IF client THEN Cardinality({i \in DOMAIN outcomes : outcomes[i] # "ok"}) ELSE 0

(***************************************************************************)
(* embed_files_to_notion_pages.                                            *)
(***************************************************************************)
\* get_upload_files and the grouping by page; query_database may raise
StartRun ==
    /\ pc = "idle"
    /\ runsLeft > 0
    /\ \/ /\ pc' = "loop"
          /\ pageFiles' = GroupByPage(get_upload_files(rows), <<>>)
          /\ idx' = 1
          /\ UNCHANGED faults
       \/ /\ faults < MaxFaults
          /\ faults' = faults + 1
          /\ pc' = "raised"
          /\ pageFiles' = <<>>
          /\ idx' = 1
    /\ processed' = <<>>
    /\ fetchLog' = <<>>
    /\ deleteLog' = <<>>
    /\ appendLog' = <<>>
    /\ UNCHANGED <<rows, store, gdrive, driveFiles, nextBlock, runsLeft, history>>
    /\ UNCHANGED <<migVars, resVars, fnVars, otherVars>>

\* one pass of the loop over page_files, get_all_block_children raising
EmbedPageFetchFails ==
    /\ pc = "loop"
    /\ idx <= Len(pageFiles)
    /\ faults < MaxFaults
    /\ faults' = faults + 1
    /\ fetchLog' = Append(fetchLog, pageFiles[idx].page_id)
    /\ idx' = AfterPageFailure(idx, Len(pageFiles))
    /\ UNCHANGED <<rows, store, gdrive, driveFiles, nextBlock, pc, runsLeft,
                   pageFiles, processed, deleteLog, appendLog, history>>
    /\ UNCHANGED <<migVars, resVars, fnVars, otherVars>>

\* one pass of the loop over page_files: delete the old section, build the
\* blocks, append them
EmbedPage ==
    /\ pc = "loop"
    /\ idx <= Len(pageFiles)
    /\ LET page_id == pageFiles[idx].page_id
           file_list == pageFiles[idx].files
           ids == ToDelete(store[page_id])
       IN \E lost \in SubsetsUpTo(1..Len(ids), MaxFaults - faults),
             outcomes \in UploadChoices(file_list, gdrive),
             append_ok \in BOOLEAN :
            LET n == Cardinality(lost) + FailedUploads(outcomes, gdrive)
                     + (IF append_ok THEN 0 ELSE 1)
                deleted == {ids[i] : i \in (1..Len(ids)) \ lost}
                kept == AfterDeletes(store[page_id], deleted)
                built == all_blocks(file_list, gdrive, driveFiles, outcomes)
            IN /\ faults + n <= MaxFaults
               /\ faults' = faults + n
               /\ fetchLog' = Append(fetchLog, page_id)
               /\ deleteLog' = deleteLog \o
                     [i \in 1..Len(ids) |->
                        [page |-> page_id, id |-> ids[i], ok |-> i \notin lost]]
               /\ driveFiles' = built.drive
               /\ appendLog' = Append(appendLog,
                     [page |-> page_id, blocks |-> built.blocks, ok |-> append_ok])
               /\ store' = [store EXCEPT ![page_id] =
                     IF append_ok THEN AfterAppend(kept, built.blocks, nextBlock)
                     ELSE kept]
               /\ nextBlock' = IF append_ok THEN nextBlock + Len(built.blocks)
                                ELSE nextBlock
               /\ processed' = ProcessedAfterAppend(processed, page_id, append_ok)
               /\ idx' = idx + 1
    /\ UNCHANGED <<rows, gdrive, pc, runsLeft, pageFiles, history>>
    /\ UNCHANGED <<migVars, resVars, fnVars, otherVars>>

\* return processed_pages
ReturnRun ==
    /\ pc = "loop"
    /\ idx > Len(pageFiles)
    /\ pc' = "idle"
    /\ runsLeft' = runsLeft - 1
    /\ history' = Append(history, store)
    /\ UNCHANGED <<rows, store, gdrive, driveFiles, nextBlock, idx, pageFiles,
                   processed, fetchLog, deleteLog, appendLog, faults>>
    /\ UNCHANGED <<migVars, resVars, fnVars, otherVars>>

EmbedNext == StartRun \/ EmbedPageFetchFails \/ EmbedPage \/ ReturnRun

(***************************************************************************)
(* migrate_and_copy_with_file_link.  A property of a row is [name, type,   *)
(* val]; val is "none" (null), "falsy" (0, False, "", []) or "x".  The     *)
(* column names of the tables are written in Latin letters: "Name",        *)
(* "SubmittedAt", "Upload" and "File" are the four the code names.         *)
(***************************************************************************)
Prop(name, type, val) == [name |-> name, type |-> type, val |-> val]
MigRow(id, props) == [id |-> id, props |-> props]

\* a dict and an assignment to one of its keys
EmptyDict == [k \in {} |-> "none"]
Put(d, key, value) == [k \in DOMAIN d \cup {key} |-> IF k = key THEN value ELSE d[k]]

\* the property types whose branch copies a value that is truthy
TruthyTypes == {"date", "rich_text", "select", "multi_select", "url", "people",
                "email", "phone_number", "relation"}

\* the property types whose branch copies any value but None
NotNoneTypes == {"number", "checkbox"}

\* the if/elif chain over prop_type: does it write new_props[k]
CopiesValue(type, val) ==
    \/ type \in TruthyTypes /\ val = "x"
    \/ type \in NotNoneTypes /\ val # "none"

\* the loop over properties.items(); upload_file is not a method of the Drive
\* client (and the client may be None), so reaching it raises
RECURSIVE CopyLoop(_, _, _, _, _)
CopyLoop(props, i, new_props, keys, upload_key) ==
    IF i > Len(props) THEN [raised |-> FALSE, props |-> new_props]
    ELSE LET k == props[i].name
             v == props[i]
         IN IF k = upload_key THEN [raised |-> TRUE, props |-> new_props]
            ELSE IF k = "SubmittedAt" \/ k \notin keys
                    \/ v.type \in {"created_time", "last_edited_time", "title"}
                    \/ ~CopiesValue(v.type, v.val)
                 THEN CopyLoop(props, i + 1, new_props, keys, upload_key)
                 ELSE CopyLoop(props, i + 1,
                               Put(new_props, k, [payload |-> v.type, val |-> v.val]),
                               keys, upload_key)

\* new_props of one row
NewProps(page, keys, upload_key) ==
    CopyLoop(page.props, 1,
             IF "Name" \in keys
             THEN Put(EmptyDict, "Name", [payload |-> "title", val |-> page.id])
             ELSE EmptyDict,
             keys, upload_key)

\* query_database and retrieve_database, either of which may raise
MigrateStart ==
    /\ migPc = "idle"
    /\ \/ /\ migPc' = "loop"
          /\ UNCHANGED faults
       \/ /\ faults < MaxFaults
          /\ faults' = faults + 1
          /\ migPc' = "raised"
    /\ migIdx' = 1
    /\ copied' = 0
    /\ UNCHANGED <<migRows, destKeys, uploadKey, dest, attemptLog>>
    /\ UNCHANGED <<embedState, gdrive, driveFiles, resVars, fnVars, otherVars>>

\* one pass of the loop over the rows: build new_props, create the page
MigrateRow ==
    /\ migPc = "loop"
    /\ migIdx <= Len(migRows)
    /\ LET page == migRows[migIdx]
           built == NewProps(page, destKeys, uploadKey)
       IN \E created \in BOOLEAN :
            LET ok == ~built.raised /\ created
            IN /\ built.raised => created
               /\ created \/ faults < MaxFaults
               /\ faults' = IF created THEN faults ELSE faults + 1
               /\ attemptLog' = Append(attemptLog, [id |-> page.id, ok |-> ok])
               /\ dest' = IF ok THEN Append(dest, [from |-> page.id, props |-> built.props])
                          ELSE dest
               /\ copied' = IF ok THEN copied + 1 ELSE copied
               /\ migPc' = IF ok THEN "loop" ELSE "raised"
               /\ migIdx' = IF ok THEN migIdx + 1 ELSE migIdx
    /\ UNCHANGED <<migRows, destKeys, uploadKey>>
    /\ UNCHANGED <<embedState, gdrive, driveFiles, resVars, fnVars, otherVars>>

\* return copied_count
MigrateReturn ==
    /\ migPc = "loop"
    /\ migIdx > Len(migRows)
    /\ migPc' = "returned"
    /\ UNCHANGED <<migRows, destKeys, uploadKey, migIdx, copied, dest, attemptLog>>
    /\ UNCHANGED <<embedState, gdrive, driveFiles, faults, resVars, fnVars, otherVars>>

MigrateNext == MigrateStart \/ MigrateRow \/ MigrateReturn

(***************************************************************************)
(* migrate_nonfile_properties: the rows are those of migRows, the pages it *)
(* creates go to dest, its position is migPc and migIdx.  The loop over    *)
(* the properties has no test against the destination's columns and        *)
(* copies a title that is not empty.                                       *)
(***************************************************************************)
RECURSIVE MoveCopyLoop(_, _, _, _)
MoveCopyLoop(props, i, new_props, upload_key) ==
    IF i > Len(props) THEN new_props
    ELSE LET k == props[i].name
             v == props[i]
         IN IF k = upload_key \/ k = "SubmittedAt"
               \/ v.type \in {"created_time", "last_edited_time"}
               \/ ~(CopiesValue(v.type, v.val) \/ (v.type = "title" /\ v.val = "x"))
            THEN MoveCopyLoop(props, i + 1, new_props, upload_key)
            ELSE MoveCopyLoop(props, i + 1,
                              Put(new_props, k, [payload |-> v.type, val |-> v.val]),
                              upload_key)

MoveProps(page, upload_key) == MoveCopyLoop(page.props, 1, EmptyDict, upload_key)

\* what the requests of one pass meet: the creation is answered 200/201, is
\* answered otherwise, or raises; the deletion is carried out, is refused, or
\* raises
CreateOutcomes == {"created", "rejected", "raised"}
DeleteOutcomes == {"deleted", "refused", "raised"}

\* the delete request is sent although the creation was not answered 200/201
DeletesAfterAnyAnswer(create) == create \in {"created", "rejected"}

\* the test  resp.status_code == 200 or resp.status_code == 201
DeletesAfter(create) == create = "created"

\* query_database, which may raise
MoveStart ==
    /\ migPc = "idle"
    /\ \/ /\ migPc' = "loop"
          /\ UNCHANGED faults
       \/ /\ faults < MaxFaults
          /\ faults' = faults + 1
          /\ migPc' = "raised"
    /\ migIdx' = 1
    /\ moved_count' = 0
    /\ UNCHANGED <<migRows, destKeys, uploadKey, copied, dest, attemptLog>>
    /\ UNCHANGED <<deleteReqs, srcLive>>
    /\ UNCHANGED <<embedState, gdrive, driveFiles, resVars, fnVars, propVars, restVars>>

\* one pass of the loop over the rows
MoveRow ==
    /\ migPc = "loop"
    /\ migIdx <= Len(migRows)
    /\ LET page == migRows[migIdx]
           new_props == MoveProps(page, uploadKey)
       IN IF new_props = EmptyDict
          THEN /\ migIdx' = migIdx + 1
               /\ UNCHANGED <<migPc, dest, attemptLog, moved_count, deleteReqs,
                              srcLive, faults>>
          ELSE \E create \in CreateOutcomes, delete \in DeleteOutcomes :
                 LET sent == DeletesAfter(create)
                     failures == (IF create = "created" THEN 0 ELSE 1)
                                   + (IF sent /\ delete # "deleted" THEN 1 ELSE 0)
                     raises == create = "raised" \/ (sent /\ delete = "raised")
                 IN /\ faults + failures <= MaxFaults
                    /\ ~sent => delete = "deleted"
                    /\ faults' = faults + failures
                    /\ attemptLog' = Append(attemptLog,
                                            [id |-> page.id, ok |-> create = "created"])
                    /\ dest' = IF create = "created"
                               THEN Append(dest, [from |-> page.id, props |-> new_props])
                               ELSE dest
                    /\ deleteReqs' = IF sent
                                     THEN Append(deleteReqs,
                                                 [id |-> page.id, ok |-> delete = "deleted"])
                                     ELSE deleteReqs
                    /\ srcLive' = IF sent /\ delete = "deleted"
                                  THEN srcLive \ {page.id} ELSE srcLive
                    /\ moved_count' = IF sent /\ ~raises THEN moved_count + 1
                                      ELSE moved_count
                    /\ migPc' = IF raises THEN "raised" ELSE "loop"
                    /\ migIdx' = IF raises THEN migIdx ELSE migIdx + 1
    /\ UNCHANGED <<migRows, destKeys, uploadKey, copied>>
    /\ UNCHANGED <<embedState, gdrive, driveFiles, resVars, fnVars, propVars, restVars>>

\* return moved_count
MoveReturn ==
    /\ migPc = "loop"
    /\ migIdx > Len(migRows)
    /\ migPc' = "returned"
    /\ UNCHANGED <<migRows, destKeys, uploadKey, migIdx, copied, dest, attemptLog>>
    /\ UNCHANGED <<moveVars, faults>>
    /\ UNCHANGED <<embedState, gdrive, driveFiles, resVars, fnVars, propVars, restVars>>

MoveNext == MoveStart \/ MoveRow \/ MoveReturn

(***************************************************************************)
(* The resolvers of an attachment's URL.  Res is what a resolver did with  *)
(* one file_info: the URL it goes on with (or dropped), and the requests   *)
(* it sent.                                                                *)
(***************************************************************************)
Res(src, url, dropped, net) == [src |-> src, url |-> url, dropped |-> dropped, net |-> net]

\* the URL returned by the upload endpoint, a data: URL of the content, the
\* Drive link of upload_to_gdrive, the fallback_url of main.py
NotionFileUrl(n) == Url({"notion file_url"}, n)
DataUrl(n) == Url({"data:;base64,"}, n)
GDriveLink(n) == Url({"drive.google.com webContentLink"}, n)
FallbackUrl(n) == Url({"external-storage-example.com"}, n)

\* github_sync.py and main.py define the test again, without the guard on None
gs_is_temporary_notion_url(url) ==
    /\ "prod-files-secure.s3" \in url.has
    /\ ("X-Amz-Expires" \in url.has \/ "expiry_time" \in url.has)

main_is_temporary_notion_url(url) ==
    /\ "prod-files-secure.s3" \in url.has
    /\ ("X-Amz-Expires" \in url.has \/ "expiry_time" \in url.has)

\* notion_file_manager.upload_file_to_notion after a download: a rejected
\* request for the upload URL ("data_url") yields the base64 data: URL
NfmOutcomes == {"ok", "download_fail", "upload_fail", "data_url"}

convert_temporary_file_to_permanent(file_info, outcome) ==
    IF file_info.url = EmptyUrl THEN Res(file_info, file_info.url, FALSE, <<>>)
    ELSE IF file_info.type = "file" /\ is_temporary_notion_url(file_info.url)
    THEN IF outcome = "ok"
         THEN Res(file_info, NotionFileUrl(file_info.url.n), FALSE, Requests(outcome))
         ELSE IF outcome = "data_url"
         THEN Res(file_info, DataUrl(file_info.url.n), FALSE, Requests("upload_fail"))
         ELSE Res(file_info, file_info.url, FALSE, Requests(outcome))
    ELSE Res(file_info, file_info.url, FALSE, <<>>)

\* github_sync.process_notion_files, one file_info; its upload_file_to_notion
\* makes the data: URL when the file_url it got is not an http URL
GsOutcomes == {"ok", "download_fail", "upload_fail", "data_url"}

gs_resolve(file_info, outcome) ==
    IF file_info.type = "file" /\ gs_is_temporary_notion_url(file_info.url)
    THEN IF outcome = "ok"
         THEN Res(file_info, NotionFileUrl(file_info.url.n), FALSE, Requests(outcome))
         ELSE IF outcome = "data_url"
         THEN Res(file_info, DataUrl(file_info.url.n), FALSE, Requests("ok"))
         ELSE Res(file_info, file_info.url, FALSE, Requests(outcome))
    ELSE Res(file_info, file_info.url, FALSE, <<>>)

\* main.download_and_upload_file_to_notion: the Drive link, the fallback URL
\* when upload_to_gdrive returns None, None when the download fails
MainOutcomes == {"ok", "download_fail", "upload_fail"}

\* a failed download handing back the URL it was given
download_and_upload_keeps_source(file_url, outcome) ==
    IF outcome = "ok" THEN GDriveLink(file_url.n)
    ELSE IF outcome = "upload_fail" THEN FallbackUrl(file_url.n)
    ELSE file_url

download_and_upload_file_to_notion(file_url, outcome) ==
    IF outcome = "ok" THEN GDriveLink(file_url.n)
    ELSE IF outcome = "upload_fail" THEN FallbackUrl(file_url.n)
    ELSE EmptyUrl

\* main.add_to_data_manage, one file_info
main_resolve(file_info, outcome) ==
    IF file_info.url = EmptyUrl THEN Res(file_info, EmptyUrl, TRUE, <<>>)
    ELSE IF main_is_temporary_notion_url(file_info.url) /\ file_info.type = "file"
    THEN LET permanent_url == download_and_upload_file_to_notion(file_info.url, outcome)
         IN IF permanent_url # EmptyUrl
            THEN Res(file_info, permanent_url, FALSE, Requests(outcome))
            ELSE Res(file_info, EmptyUrl, TRUE, Requests(outcome))
    ELSE Res(file_info, file_info.url, FALSE, <<>>)

\* file_viewer: create_file_blocks_for_notion sends every file to Drive when
\* there is a client
viewer_resolve(file_info, client, drive, outcome) ==
    IF get_file_url(file_info) = EmptyUrl THEN Res(file_info, EmptyUrl, TRUE, <<>>)
    ELSE Res(file_info,
             _upload_to_drive(FileData("p1", file_info), client, drive, outcome),
             FALSE,
             IF client THEN Requests(outcome) ELSE <<>>)

(***************************************************************************)
(* The handlers that run a resolver over the files of one row.  resOut is  *)
(* the payload the handler sends: the files property, the children blocks, *)
(* and whether Notion accepted it.                                         *)
(***************************************************************************)
Resolution(by, per, files, blocks, posted) ==
    [by |-> by, per |-> per, files |-> files, blocks |-> blocks, posted |-> posted]

NoResolution == Resolution("none", <<>>, <<>>, <<>>, FALSE)

\* the file object written for a resolved file_info
WrittenObj(res) ==
    IF res.url = res.src.url THEN res.src
    ELSE FileObj(res.src.name, "external", res.url)

\* the block add_to_data_manage makes, its type by the extension of the name
ExtensionBlock(file_name, file_url) ==
    MediaBlock(CASE file_name = "photo.png" -> "image"
                 [] file_name = "a.mp4" -> "video"
                 [] file_name = "b.mp3" -> "audio"
                 [] OTHER -> "file",
               file_url)


(***************************************************************************)
(* The properties add_to_data_manage posts: one pass over the columns of   *)
(* the destination table, then the files column.  page_data is the         *)
(* properties of the source row, a sequence of [name, type, val]; a value  *)
(* copied as it is keeps its type as payload.  "ProjectTable", "Category"  *)
(* and "PlannedFiles" stand for the three further column names the code    *)
(* names.                                                                  *)
(***************************************************************************)
HasKey(page_data, key) == \E i \in 1..Len(page_data) : page_data[i].name = key

Verbatim(page_data, key) ==
    LET v == page_data[CHOOSE i \in 1..Len(page_data) : page_data[i].name = key]
    IN [payload |-> v.type, val |-> v.val]

\* main.py
RECURSIVE main_properties_loop(_, _, _, _, _)
main_properties_loop(keys, page_data, page_id, created_time, props) ==
    IF keys = {} THEN props
    ELSE LET key == CHOOSE k \in keys : TRUE
             rest == keys \ {key}
             next ==
                 IF key = "Name" /\ page_id # ""
                 THEN Put(props, "Name", [payload |-> "title", val |-> page_id])
                 ELSE IF key = "SubmittedAt" /\ created_time # ""
                 THEN Put(props, "SubmittedAt", [payload |-> "date", val |-> created_time])
                 ELSE IF key = "ProjectTable" /\ HasKey(page_data, "ProjectTable")
                 THEN Put(props, key, Verbatim(page_data, "ProjectTable"))
                 ELSE IF key = "Category" /\ HasKey(page_data, "PlannedFiles")
                 THEN Put(props, key, Verbatim(page_data, "PlannedFiles"))
                 ELSE IF HasKey(page_data, key) /\ key # "File"
                 THEN Put(props, key, Verbatim(page_data, key))
                 ELSE props
         IN main_properties_loop(rest, page_data, page_id, created_time, next)

\* properties as the payload holds them: the loop, then the files column
main_properties(keys, page_data, page_id, created_time, file_objs) ==
    LET looped == main_properties_loop(keys, page_data, page_id, created_time, EmptyDict)
    IN IF file_objs # <<>>
       THEN Put(looped, "File", [payload |-> "files", val |-> "x"])
       ELSE looped

\* notion_file_manager.py
RECURSIVE nfm_properties_loop(_, _, _, _, _)
nfm_properties_loop(keys, page_data, page_id, created_time, props) ==
    IF keys = {} THEN props
    ELSE LET key == CHOOSE k \in keys : TRUE
             rest == keys \ {key}
             next ==
                 IF key = "Name" /\ page_id # ""
                 THEN Put(props, "Name", [payload |-> "title", val |-> page_id])
                 ELSE IF key = "SubmittedAt" /\ created_time # ""
                 THEN Put(props, "SubmittedAt", [payload |-> "date", val |-> created_time])
                 ELSE IF key = "ProjectTable" /\ HasKey(page_data, "ProjectTable")
                 THEN Put(props, key, Verbatim(page_data, "ProjectTable"))
                 ELSE IF key = "Category" /\ HasKey(page_data, "PlannedFiles")
                 THEN Put(props, key, Verbatim(page_data, "PlannedFiles"))
                 ELSE IF HasKey(page_data, key) /\ key # "File"
                 THEN Put(props, key, Verbatim(page_data, key))
                 ELSE props
         IN nfm_properties_loop(rest, page_data, page_id, created_time, next)

\* properties as the payload holds them: the loop, then the files column
nfm_properties(keys, page_data, page_id, created_time, file_objs) ==
    LET looped == nfm_properties_loop(keys, page_data, page_id, created_time, EmptyDict)
    IN IF file_objs # <<>>
       THEN Put(looped, "File", [payload |-> "files", val |-> "x"])
       ELSE looped

\* notion_file_manager.add_to_data_manage: the loop over files_array, the POST
NfmAddToDataManage ==
    /\ resOut.by = "none"
    /\ \E outcomes \in [1..Len(resFiles) -> NfmOutcomes], posted \in BOOLEAN :
          LET per == [i \in 1..Len(resFiles) |->
                         convert_temporary_file_to_permanent(resFiles[i], outcomes[i])]
              file_objs == [i \in 1..Len(resFiles) |-> WrittenObj(per[i])]
              embed_blocks == Flatten([i \in 1..Len(resFiles) |->
                  IF per[i].url # EmptyUrl
                  THEN <<ExtensionBlock(per[i].src.name, per[i].url)>> ELSE <<>>])
          IN /\ resOut' = Resolution("notion_file_manager", per, file_objs, embed_blocks,
                                     posted)
             /\ properties' = nfm_properties(manageTypes, pageData.props, pageData.id,
                                            pageData.created_time, file_objs)
    /\ UNCHANGED <<resFiles, pageData, manageTypes>>
    /\ UNCHANGED <<embedState, gdrive, driveFiles, faults, migVars, fnVars, moveVars,
                   restVars>>

\* github_sync.process_notion_files: the loop over files_array, then
\* update_notion_with_permanent_url if updated_files is not empty
GsProcessNotionFiles ==
    /\ resOut.by = "none"
    /\ \E outcomes \in [1..Len(resFiles) -> GsOutcomes], posted \in BOOLEAN :
          LET per == [i \in 1..Len(resFiles) |-> gs_resolve(resFiles[i], outcomes[i])]
              updated_files == [i \in 1..Len(resFiles) |-> WrittenObj(per[i])]
          IN /\ posted => Len(resFiles) > 0
             /\ resOut' = Resolution("github_sync", per, updated_files, <<>>, posted)
    /\ UNCHANGED resFiles
    /\ UNCHANGED <<embedState, gdrive, driveFiles, faults, migVars, fnVars, otherVars>>

\* the loop leaving at the first file without a permanent URL
RECURSIVE main_embed_blocks_break(_, _)
main_embed_blocks_break(per, i) ==
    IF i > Len(per) \/ per[i].dropped THEN <<>>
    ELSE <<ExtensionBlock(per[i].src.name, per[i].url)>> \o main_embed_blocks_break(per, i + 1)

\* embed_blocks of main.add_to_data_manage: `continue` skips a file without a
\* permanent URL, the files after it get their blocks
RECURSIVE main_embed_blocks(_, _)
main_embed_blocks(per, i) ==
    IF i > Len(per) THEN <<>>
    ELSE IF per[i].dropped THEN main_embed_blocks(per, i + 1)
    ELSE <<ExtensionBlock(per[i].src.name, per[i].url)>> \o main_embed_blocks(per, i + 1)

\* main.add_to_data_manage: the loop over files_array, the POST
MainAddToDataManage ==
    /\ resOut.by = "none"
    /\ \E outcomes \in [1..Len(resFiles) -> MainOutcomes], posted \in BOOLEAN :
          LET per == [i \in 1..Len(resFiles) |-> main_resolve(resFiles[i], outcomes[i])]
              file_objs == Flatten([i \in 1..Len(resFiles) |->
                  IF per[i].dropped THEN <<>> ELSE <<WrittenObj(per[i])>>])
              embed_blocks == main_embed_blocks(per, 1)
          IN /\ resOut' = Resolution("main", per, file_objs, embed_blocks, posted)
             /\ properties' = main_properties(manageTypes, pageData.props, pageData.id,
                                             pageData.created_time, file_objs)
    /\ UNCHANGED <<resFiles, pageData, manageTypes>>
    /\ UNCHANGED <<embedState, gdrive, driveFiles, faults, migVars, fnVars, moveVars,
                   restVars>>

\* file_viewer: get_upload_files drops the files without a URL, the loop of
\* embed_files_to_notion_pages builds the blocks, append_blocks sends them
ViewerEmbedFiles ==
    /\ resOut.by = "none"
    /\ LET with_url == Filter(resFiles, {f \in Range(resFiles) : get_file_url(f) # EmptyUrl})
           file_list == RowFileData("p1", resFiles)
       IN \E outcomes \in UploadChoices(file_list, gdrive), posted \in BOOLEAN :
          LET built == all_blocks(file_list, gdrive, driveFiles, outcomes)
              before(j) == FileLoop(SubSeq(file_list, 1, j - 1), 1, gdrive,
                                    driveFiles, outcomes, <<>>).drive
              per == [j \in 1..Len(with_url) |->
                         viewer_resolve(with_url[j], gdrive, before(j), outcomes[j])]
          IN /\ posted => Len(file_list) > 0
             /\ driveFiles' = built.drive
             /\ resOut' = Resolution("file_viewer", per, <<>>,
                                     IF file_list = <<>> THEN <<>> ELSE built.blocks,
                                     posted)
    /\ UNCHANGED resFiles
    /\ UNCHANGED <<embedState, gdrive, faults, migVars, fnVars, otherVars>>

ResolveNext ==
    NfmAddToDataManage \/ GsProcessNotionFiles \/ MainAddToDataManage \/ ViewerEmbedFiles

(***************************************************************************)
(* create_file_blocks_for_notion called with one file_data: the upload to  *)
(* Drive when there is a client, the classification of the URL it goes on  *)
(* with, the blocks.                                                       *)
(***************************************************************************)
Synth(done, url, preview, blocks) ==
    [done |-> done, url |-> url, preview |-> preview, blocks |-> blocks]

NoSynth == Synth(FALSE, EmptyUrl, "", <<>>)

CreateFileBlocks ==
    /\ ~synOut.done
    /\ \E outcome \in (IF gdrive THEN UploadOutcomes ELSE {"ok"}) :
          LET file_url == _upload_to_drive(synFile, gdrive, driveFiles, outcome)
          IN /\ driveFiles' = IF gdrive THEN DriveAfter(driveFiles, synFile, outcome)
                              ELSE driveFiles
             /\ synOut' = Synth(TRUE, file_url, is_previewable_url(file_url),
                                create_file_blocks_for_notion(synFile, file_url))
    /\ UNCHANGED <<synFile, catName, catOut>>
    /\ UNCHANGED <<embedState, gdrive, faults, migVars, resVars, otherVars>>

SynthNext == CreateFileBlocks

Category(done, github_sync, main, notion_file_manager) ==
    [done |-> done, github_sync |-> github_sync, main |-> main,
     notion_file_manager |-> notion_file_manager]

NoCategory == Category(FALSE, "", "", "")

(***************************************************************************)
(* get_file_category.  A file name is the sequence of its characters.      *)
(* str.lower() maps each capital letter to its small letter and leaves     *)
(* every other character; str.endswith(ext) compares the last len(ext)     *)
(* characters.  The function is written out three times in the            *)
(* repository; each copy is modelled from its own text.                    *)
(***************************************************************************)
Capitals == <<"A", "B", "C", "D", "E", "F", "G", "H", "I", "J", "K", "L", "M",
              "N", "O", "P", "Q", "R", "S", "T", "U", "V", "W", "X", "Y", "Z">>
Smalls == <<"a", "b", "c", "d", "e", "f", "g", "h", "i", "j", "k", "l", "m",
            "n", "o", "p", "q", "r", "s", "t", "u", "v", "w", "x", "y", "z">>

lower_char(c) ==
    IF \E i \in 1..Len(Capitals) : Capitals[i] = c
    THEN Smalls[CHOOSE i \in 1..Len(Capitals) : Capitals[i] = c]
    ELSE c

lower(name) == [i \in 1..Len(name) |-> lower_char(name[i])]

endswith(name, ext) ==
    /\ Len(ext) <= Len(name)
    /\ SubSeq(name, Len(name) - Len(ext) + 1, Len(name)) = ext

\* github_sync.py
gs_get_file_category(file_name) ==
    LET file_lower == lower(file_name)
    IN IF \E ext \in Range(<<<<".", "j", "p", "g">>, <<".", "j", "p", "e", "g">>,
                           <<".", "p", "n", "g">>, <<".", "g", "i", "f">>,
                           <<".", "b", "m", "p">>, <<".", "w", "e", "b", "p">>,
                           <<".", "s", "v", "g">>, <<".", "t", "i", "f", "f">>>>) :
              endswith(file_lower, ext)
       THEN "images"
       ELSE IF \E ext \in Range(<<<<".", "m", "p", "4">>, <<".", "m", "o", "v">>,
                                <<".", "a", "v", "i">>, <<".", "w", "e", "b", "m">>,
                                <<".", "m", "k", "v">>, <<".", "f", "l", "v">>,
                                <<".", "w", "m", "v">>, <<".", "m", "4", "v">>>>) :
              endswith(file_lower, ext)
       THEN "videos"
       ELSE IF \E ext \in Range(<<<<".", "m", "p", "3">>, <<".", "w", "a", "v">>,
                                <<".", "o", "g", "g">>, <<".", "m", "4", "a">>,
                                <<".", "f", "l", "a", "c">>, <<".", "a", "a", "c">>,
                                <<".", "w", "m", "a">>>>) :
              endswith(file_lower, ext)
       THEN "audio"
       ELSE "others"

\* the category when the name is not lower-cased first
get_file_category_as_written(file_name) ==
    IF \E ext \in Range(<<<<".", "j", "p", "g">>, <<".", "j", "p", "e", "g">>,
                        <<".", "p", "n", "g">>, <<".", "g", "i", "f">>,
                        <<".", "b", "m", "p">>, <<".", "w", "e", "b", "p">>,
                        <<".", "s", "v", "g">>, <<".", "t", "i", "f", "f">>>>) :
           endswith(file_name, ext)
    THEN "images"
    ELSE IF \E ext \in Range(<<<<".", "m", "p", "4">>, <<".", "m", "o", "v">>,
                             <<".", "a", "v", "i">>, <<".", "w", "e", "b", "m">>,
                             <<".", "m", "k", "v">>, <<".", "f", "l", "v">>,
                             <<".", "w", "m", "v">>, <<".", "m", "4", "v">>>>) :
           endswith(file_name, ext)
    THEN "videos"
    ELSE IF \E ext \in Range(<<<<".", "m", "p", "3">>, <<".", "w", "a", "v">>,
                             <<".", "o", "g", "g">>, <<".", "m", "4", "a">>,
                             <<".", "f", "l", "a", "c">>, <<".", "a", "a", "c">>,
                             <<".", "w", "m", "a">>>>) :
           endswith(file_name, ext)
    THEN "audio"
    ELSE "others"

\* main.py
get_file_category(file_name) ==
    LET file_lower == lower(file_name)
    IN IF \E ext \in Range(<<<<".", "j", "p", "g">>, <<".", "j", "p", "e", "g">>,
                           <<".", "p", "n", "g">>, <<".", "g", "i", "f">>,
                           <<".", "b", "m", "p">>, <<".", "w", "e", "b", "p">>,
                           <<".", "s", "v", "g">>, <<".", "t", "i", "f", "f">>>>) :
              endswith(file_lower, ext)
       THEN "images"
       ELSE IF \E ext \in Range(<<<<".", "m", "p", "4">>, <<".", "m", "o", "v">>,
                                <<".", "a", "v", "i">>, <<".", "w", "e", "b", "m">>,
                                <<".", "m", "k", "v">>, <<".", "f", "l", "v">>,
                                <<".", "w", "m", "v">>, <<".", "m", "4", "v">>>>) :
              endswith(file_lower, ext)
       THEN "videos"
       ELSE IF \E ext \in Range(<<<<".", "m", "p", "3">>, <<".", "w", "a", "v">>,
                                <<".", "o", "g", "g">>, <<".", "m", "4", "a">>,
                                <<".", "f", "l", "a", "c">>, <<".", "a", "a", "c">>,
                                <<".", "w", "m", "a">>>>) :
              endswith(file_lower, ext)
       THEN "audio"
       ELSE "others"

\* notion_file_manager.py
nfm_get_file_category(file_name) ==
    LET file_lower == lower(file_name)
    IN IF \E ext \in Range(<<<<".", "j", "p", "g">>, <<".", "j", "p", "e", "g">>,
                           <<".", "p", "n", "g">>, <<".", "g", "i", "f">>,
                           <<".", "b", "m", "p">>, <<".", "w", "e", "b", "p">>,
                           <<".", "s", "v", "g">>, <<".", "t", "i", "f", "f">>>>) :
              endswith(file_lower, ext)
       THEN "images"
       ELSE IF \E ext \in Range(<<<<".", "m", "p", "4">>, <<".", "m", "o", "v">>,
                                <<".", "a", "v", "i">>, <<".", "w", "e", "b", "m">>,
                                <<".", "m", "k", "v">>, <<".", "f", "l", "v">>,
                                <<".", "w", "m", "v">>, <<".", "m", "4", "v">>>>) :
              endswith(file_lower, ext)
       THEN "videos"
       ELSE IF \E ext \in Range(<<<<".", "m", "p", "3">>, <<".", "w", "a", "v">>,
                                <<".", "o", "g", "g">>, <<".", "m", "4", "a">>,
                                <<".", "f", "l", "a", "c">>, <<".", "a", "a", "c">>,
                                <<".", "w", "m", "a">>>>) :
              endswith(file_lower, ext)
       THEN "audio"
       ELSE "others"

GetFileCategory ==
    /\ ~catOut.done
    /\ catOut' = Category(TRUE, gs_get_file_category(catName),
                          get_file_category(catName), nfm_get_file_category(catName))
    /\ UNCHANGED <<synFile, synOut, catName>>
    /\ UNCHANGED <<embedState, gdrive, driveFiles, faults, migVars, resVars, otherVars>>

CategoryNext == GetFileCategory

(***************************************************************************)
(* The children of the requests that carry a block list.  A block is known *)
(* by its place in the list.  append_blocks puts the whole list into one   *)
(* PATCH; add_to_data_manage puts embed_blocks[:100] into its one POST.    *)
(***************************************************************************)
\* embed_blocks[:100]
FirstHundred(blocks) ==
    SubSeq(blocks, 1, IF Len(blocks) < ChildrenLimit THEN Len(blocks) ELSE ChildrenLimit)

\* file_viewer: all_blocks is never empty (it starts with the header)
ViewerAppendBlocks ==
    /\ chunkBy = "none"
    /\ blockList # <<>>
    /\ sentChildren' = <<blockList>>
    /\ chunkBy' = "file_viewer"
    /\ UNCHANGED blockList
    /\ UNCHANGED <<embedState, gdrive, driveFiles, faults, migVars, resVars, fnVars,
                   moveVars, propVars, pagingVars, configVars>>

\* main.add_to_data_manage: children only if embed_blocks is not empty
MainPostChildren ==
    /\ chunkBy = "none"
    /\ sentChildren' = IF blockList # <<>> THEN <<FirstHundred(blockList)>> ELSE <<>>
    /\ chunkBy' = "main"
    /\ UNCHANGED blockList
    /\ UNCHANGED <<embedState, gdrive, driveFiles, faults, migVars, resVars, fnVars,
                   moveVars, propVars, pagingVars, configVars>>

\* notion_file_manager.add_to_data_manage
NfmPostChildren ==
    /\ chunkBy = "none"
    /\ sentChildren' = IF blockList # <<>> THEN <<FirstHundred(blockList)>> ELSE <<>>
    /\ chunkBy' = "notion_file_manager"
    /\ UNCHANGED blockList
    /\ UNCHANGED <<embedState, gdrive, driveFiles, faults, migVars, resVars, fnVars,
                   moveVars, propVars, pagingVars, configVars>>

ChunkNext == ViewerAppendBlocks \/ MainPostChildren \/ NfmPostChildren

(***************************************************************************)
(* The list endpoints.  Notion answers a list request with at most         *)
(* PageSize entries from the cursor on, has_more and next_cursor.  An      *)
(* entry is known by its place in the list; the cursor of an entry is its  *)
(* place, None is 0.                                                       *)
(***************************************************************************)
ListResponse(list, cursor) ==
    LET from == IF cursor = 0 THEN 1 ELSE cursor
        upto == IF from + PageSize - 1 < Len(list) THEN from + PageSize - 1 ELSE Len(list)
        more == upto < Len(list)
    IN [results |-> SubSeq(list, from, upto), has_more |-> more,
        next_cursor |-> IF more THEN upto + 1 ELSE 0]

\* query_database: one POST, response.json() is returned as it is; the callers
\* read results.get("results", []) and nothing else
QueryDatabase ==
    /\ ~queried.done
    /\ queried' = [done |-> TRUE, results |-> ListResponse(listing, 0).results]
    /\ UNCHANGED <<listing, childPc, start_cursor, all_children>>
    /\ UNCHANGED <<embedState, gdrive, driveFiles, faults, migVars, resVars, fnVars,
                   moveVars, propVars, chunkVars, configVars>>

\* get_all_block_children up to the loop
GetAllBlockChildren ==
    /\ childPc = "idle"
    /\ all_children' = <<>>
    /\ start_cursor' = 0
    /\ childPc' = "loop"
    /\ UNCHANGED <<listing, queried>>
    /\ UNCHANGED <<embedState, gdrive, driveFiles, faults, migVars, resVars, fnVars,
                   moveVars, propVars, chunkVars, configVars>>

\* one pass of  while has_more
GetBlockChildren ==
    /\ childPc = "loop"
    /\ LET response == ListResponse(listing, start_cursor)
       IN /\ all_children' = all_children \o response.results
          /\ start_cursor' = response.next_cursor
          /\ childPc' = IF ~response.has_more \/ response.next_cursor = 0
                        THEN "returned" ELSE "loop"
    /\ UNCHANGED <<listing, queried>>
    /\ UNCHANGED <<embedState, gdrive, driveFiles, faults, migVars, resVars, fnVars,
                   moveVars, propVars, chunkVars, configVars>>

PagingNext == QueryDatabase \/ GetAllBlockChildren \/ GetBlockChildren

(***************************************************************************)
(* The command-line entry points and what they check before the first      *)
(* request.  sentRequests holds the requests up to and including the      *)
(* query for the rows; what is sent per row is in the actions above.       *)
(***************************************************************************)
\* the environment variables the entry points read
EnvNames == {"NOTION_API_KEY", "UPLOADFORM_TABLEKEY", "DATA_MANAGE_TABLEKEY",
             "UPLOADFORM_DB_ID", "GDRIVE_KEY"}
NoRun == [entry |-> "none", database_id |-> FALSE, embed |-> FALSE]

GetUploadColumns == "GET databases/UPLOADFORM_TABLEKEY"
GetManageColumns == "GET databases/DATA_MANAGE_TABLEKEY"
QueryUploads == "POST databases/UPLOADFORM_TABLEKEY/query"

\* src/main.py: args.database_id or DEFAULT_UPLOADFORM_DB_ID, where a set
\* UPLOADFORM_TABLEKEY is the id itself
DatabaseId(arg) ==
    arg \/ "UPLOADFORM_DB_ID" \in env \/ "UPLOADFORM_TABLEKEY" \in env

\* src/main.py main()
SrcMain ==
    /\ ran.entry = "none"
    /\ \E arg \in BOOLEAN, embed \in BOOLEAN :
          /\ ran' = [entry |-> "src/main.py", database_id |-> arg, embed |-> embed]
          /\ sentRequests' = IF ~DatabaseId(arg) THEN <<>>
                     ELSE IF "NOTION_API_KEY" \notin env THEN <<>>
                     ELSE IF "DATA_MANAGE_TABLEKEY" \in env
                          THEN <<QueryUploads, GetManageColumns>>
                     ELSE <<QueryUploads>>
    /\ UNCHANGED env
    /\ UNCHANGED <<embedState, gdrive, driveFiles, faults, migVars, resVars, fnVars,
                   moveVars, propVars, chunkVars, pagingVars>>

\* notion_file_manager.py process_notion_files()
NfmProcessNotionFiles ==
    /\ ran.entry = "none"
    /\ ran' = [NoRun EXCEPT !.entry = "notion_file_manager.py"]
    /\ sentRequests' = IF "NOTION_API_KEY" \notin env THEN <<>>
               ELSE IF "DATA_MANAGE_TABLEKEY" \notin env THEN <<>>
               ELSE IF "UPLOADFORM_TABLEKEY" \notin env THEN <<>>
               ELSE <<GetUploadColumns, GetManageColumns, QueryUploads>>
    /\ UNCHANGED env
    /\ UNCHANGED <<embedState, gdrive, driveFiles, faults, migVars, resVars, fnVars,
                   moveVars, propVars, chunkVars, pagingVars>>

\* notionManage/main.py main()
MainMain ==
    /\ ran.entry = "none"
    /\ ran' = [NoRun EXCEPT !.entry = "notionManage/main.py"]
    /\ sentRequests' = <<GetUploadColumns, GetManageColumns, QueryUploads>>
    /\ UNCHANGED env
    /\ UNCHANGED <<embedState, gdrive, driveFiles, faults, migVars, resVars, fnVars,
                   moveVars, propVars, chunkVars, pagingVars>>

\* github_sync.py process_notion_files()
GsEntry ==
    /\ ran.entry = "none"
    /\ ran' = [NoRun EXCEPT !.entry = "github_sync.py"]
    /\ sentRequests' = <<QueryUploads>>
    /\ UNCHANGED env
    /\ UNCHANGED <<embedState, gdrive, driveFiles, faults, migVars, resVars, fnVars,
                   moveVars, propVars, chunkVars, pagingVars>>

ConfigNext == SrcMain \/ NfmProcessNotionFiles \/ MainMain \/ GsEntry

(***************************************************************************)
(* Initial states.                                                         *)
(***************************************************************************)
PhotoExt == FileObj("photo.png", "external", ExtImage(1))
AudioS3 == FileObj("b.mp3", "file", S3Expiring(2))
VideoYt == FileObj("a.mp4", "external", ExtYoutube(3))
NoUrl == FileObj("doc.pdf", "file", EmptyUrl)
EmbedFileObjs == {PhotoExt, AudioS3, NoUrl}

\* blocks a page may hold before the run
OldHeader == header_block
OtherH3 == Block("heading_3", <<"notes">>, "", EmptyUrl)
OtherH2 == Block("heading_2", <<"notes">>, "", EmptyUrl)
EmptyH1 == Block("heading_1", <<>>, "", EmptyUrl)
MarkerH2 == Block("heading_2", <<embed_marker>>, "", EmptyUrl)
Para == Block("paragraph", <<"text">>, "", EmptyUrl)
UserBlocks == {OldHeader, OtherH3, OtherH2, EmptyH1, MarkerH2, Para}

\* the store holding b1 under p1 and b2 under p2, ids in order
InitStore(b1, b2) ==
    [p \in PageIds |->
        IF p = "p1" THEN [i \in 1..Len(b1) |-> Stored(i, b1[i])]
        ELSE [i \in 1..Len(b2) |-> Stored(Len(b1) + i, b2[i])]]

InitEmbedWith(rowSet, b1Set, b2Set, runs) ==
    /\ rows \in rowSet
    /\ \E b1 \in b1Set, b2 \in b2Set :
          /\ store = InitStore(b1, b2)
          /\ nextBlock = Len(b1) + Len(b2) + 1
    /\ gdrive \in BOOLEAN
    /\ driveFiles = <<>>
    /\ pc = "idle"
    /\ idx = 1
    /\ runsLeft = runs
    /\ pageFiles = <<>>
    /\ processed = <<>>
    /\ fetchLog = <<>>
    /\ deleteLog = <<>>
    /\ appendLog = <<>>
    /\ history = <<>>
    /\ faults = 0

\* nothing to migrate, nothing to resolve
MigrateIdle ==
    /\ migRows = <<>>
    /\ destKeys = {}
    /\ uploadKey = "none"
    /\ migPc = "idle"
    /\ migIdx = 1
    /\ copied = 0
    /\ dest = <<>>
    /\ attemptLog = <<>>

ResolveIdle ==
    /\ resFiles = <<>>
    /\ resOut = NoResolution

\* no single file to make blocks for, no name to categorise
SynthIdle ==
    /\ synFile = FileData("p1", NoUrl)
    /\ synOut = NoSynth

CategoryIdle ==
    /\ catName = <<>>
    /\ catOut = NoCategory

\* the source table holds the rows that are read; nothing was moved
MoveIdle ==
    /\ moved_count = 0
    /\ deleteReqs = <<>>
    /\ srcLive = {migRows[i].id : i \in 1..Len(migRows)}

\* no row handed to add_to_data_manage
NoPage == [id |-> "", created_time |-> "", props |-> <<>>]
PropsIdle ==
    /\ pageData = NoPage
    /\ manageTypes = {}
    /\ properties = EmptyDict

ChunkIdle ==
    /\ blockList = <<>>
    /\ sentChildren = <<>>
    /\ chunkBy = "none"

\* nothing listed
NoQuery == [done |-> FALSE, results |-> <<>>]
PagingIdle ==
    /\ listing = <<>>
    /\ queried = NoQuery
    /\ childPc = "idle"
    /\ start_cursor = 0
    /\ all_children = <<>>

\* everything configured, no entry point started
ConfigIdle ==
    /\ env = EnvNames
    /\ ran = NoRun
    /\ sentRequests = <<>>

RestIdle == ChunkIdle /\ PagingIdle /\ ConfigIdle

OtherIdle == MoveIdle /\ PropsIdle /\ RestIdle

InitWith(rowSet, b1Set, b2Set, runs) ==
    /\ InitEmbedWith(rowSet, b1Set, b2Set, runs)
    /\ MigrateIdle /\ ResolveIdle /\ SynthIdle /\ CategoryIdle /\ OtherIdle

Row(id, files) == [id |-> id, files |-> files]

\* one invocation over two rows with any attachments
InitEmbed ==
    InitWith({<<Row("p1", f1), Row("p2", f2)>> :
                 f1 \in SeqsUpTo(EmbedFileObjs, MaxFiles),
                 f2 \in SeqsUpTo(EmbedFileObjs, MaxFiles)},
             {<<Para, OldHeader, Para>>}, {<<>>}, 1)

\* one invocation over one row whose page holds any blocks
InitScan ==
    InitWith({<<Row("p1", <<PhotoExt>>)>>},
             SeqsUpTo(UserBlocks, MaxBlocks), {<<>>}, 1)

\* MaxRuns invocations in succession over the same, unchanged row
InitTwice ==
    InitWith({<<Row("p1", f1)>> : f1 \in SeqsUpTo({PhotoExt, AudioS3}, MaxFiles)},
             {<<>>, <<Para>>, <<OldHeader, Para, OtherH2, Para>>}, {<<>>}, MaxRuns)

\* the rows of the source table: every row has the columns of the table, the
\* values of Memo and Count differ
MigIds == <<"r1", "r2", "r3", "r4">>
MigProps(memo, count) ==
    <<Prop("Name", "title", "x"), Prop("SubmittedAt", "date", "x"),
      Prop("Memo", "rich_text", memo), Prop("Upload", "files", "x"),
      Prop("Count", "number", count), Prop("Created", "created_time", "x")>>
MigPropsChoices == {MigProps(memo, count) : memo \in {"falsy", "x"}, count \in {"none", "falsy"}}
DestKeysChoices == {{"Name", "Memo", "Count", "File"}, {"Memo", "SubmittedAt", "Created"}, {}}

\* one invocation of migrate_and_copy_with_file_link over up to MaxRows rows
InitMigrate ==
    /\ InitEmbedWith({<<>>}, {<<>>}, {<<>>}, 0)
    /\ ResolveIdle /\ SynthIdle /\ CategoryIdle
    /\ \E ps \in SeqsUpTo(MigPropsChoices, MaxRows) :
          migRows = [i \in 1..Len(ps) |-> MigRow(MigIds[i], ps[i])]
    /\ destKeys \in DestKeysChoices
    /\ uploadKey \in {"Upload", "none"}
    /\ migPc = "idle"
    /\ migIdx = 1
    /\ copied = 0
    /\ dest = <<>>
    /\ attemptLog = <<>>
    /\ OtherIdle

\* a row none of whose properties is copied
BareProps ==
    <<Prop("Name", "title", "falsy"), Prop("SubmittedAt", "date", "x"),
      Prop("Upload", "files", "x"), Prop("Created", "created_time", "x")>>

\* one invocation of migrate_nonfile_properties over up to MaxRows rows
InitMove ==
    /\ InitEmbedWith({<<>>}, {<<>>}, {<<>>}, 0)
    /\ ResolveIdle /\ SynthIdle /\ CategoryIdle
    /\ \E ps \in SeqsUpTo(MigPropsChoices \cup {BareProps}, MaxRows) :
          migRows = [i \in 1..Len(ps) |-> MigRow(MigIds[i], ps[i])]
    /\ destKeys = {}
    /\ uploadKey \in {"Upload", "none"}
    /\ migPc = "idle"
    /\ migIdx = 1
    /\ copied = 0
    /\ dest = <<>>
    /\ attemptLog = <<>>
    /\ OtherIdle

\* the attachments a resolver may meet
DocS3Plain == FileObj("doc.pdf", "file", S3Plain(4))
VideoExtExpiring == FileObj("a.mp4", "external", ExtLooksExpiring(5))
ResolveFileObjs == {PhotoExt, AudioS3, DocS3Plain, VideoExtExpiring, NoUrl}

\* the columns the destination table may have
ManageTypesChoices ==
    {{"Name", "Memo", "File"}, {"Name", "SubmittedAt", "Created", "Upload"}, {}}

\* one handler run over the files of one row
InitResolve ==
    /\ InitEmbedWith({<<>>}, {<<>>}, {<<>>}, 0)
    /\ MigrateIdle /\ SynthIdle /\ CategoryIdle /\ MoveIdle /\ RestIdle
    /\ resFiles \in SeqsUpTo(ResolveFileObjs, MaxFiles)
    /\ resOut = NoResolution
    /\ pageData = [id |-> "r1", created_time |-> "created_time",
                   props |-> MigProps("x", "falsy")]
    /\ manageTypes \in ManageTypesChoices
    /\ properties = EmptyDict

\* the patterns is_previewable_url searches for, and the ending of a URL
\* that names a .png file
PreviewPatterns ==
    {"drive.google.com/.+/preview", "drive.google.com/uc?export=view&id=",
     "youtube.com", "youtu.be", "vimeo.com", "imgur.com", "unsplash.com",
     "dropbox.com", "twitter.com", "soundcloud.com",
     "backslash any jpg", "backslash any mp4", "backslash any mp3"}
SynthNames == {"photo.png", "a.mp4", "b.mp3", "doc.pdf", "README"}

\* one file with any name and a URL holding up to MaxPatterns of the patterns
InitSynth ==
    /\ InitEmbedWith({<<>>}, {<<>>}, {<<>>}, 0)
    /\ MigrateIdle /\ ResolveIdle /\ CategoryIdle /\ OtherIdle
    /\ \E name \in SynthNames,
          has \in SubsetsUpTo(PreviewPatterns \cup {"ends .png"}, MaxPatterns) :
          synFile = FileData("p1", FileObj(name, "external", Url(has, 1)))
    /\ synOut = NoSynth

\* the endings of the file names: every extension of the lists in small and in
\* capital letters, some in mixed case, and endings that are in no list
NameEndings ==
    {<<".", "j", "p", "g">>, <<".", "j", "p", "e", "g">>, <<".", "p", "n", "g">>,
     <<".", "g", "i", "f">>, <<".", "b", "m", "p">>, <<".", "w", "e", "b", "p">>,
     <<".", "s", "v", "g">>, <<".", "t", "i", "f", "f">>, <<".", "m", "p", "4">>,
     <<".", "m", "o", "v">>, <<".", "a", "v", "i">>, <<".", "w", "e", "b", "m">>,
     <<".", "m", "k", "v">>, <<".", "f", "l", "v">>, <<".", "w", "m", "v">>,
     <<".", "m", "4", "v">>, <<".", "m", "p", "3">>, <<".", "w", "a", "v">>,
     <<".", "o", "g", "g">>, <<".", "m", "4", "a">>, <<".", "f", "l", "a", "c">>,
     <<".", "a", "a", "c">>, <<".", "w", "m", "a">>, <<".", "J", "P", "G">>,
     <<".", "J", "P", "E", "G">>, <<".", "P", "N", "G">>, <<".", "G", "I", "F">>,
     <<".", "B", "M", "P">>, <<".", "W", "E", "B", "P">>, <<".", "S", "V", "G">>,
     <<".", "T", "I", "F", "F">>, <<".", "M", "P", "4">>, <<".", "M", "O", "V">>,
     <<".", "A", "V", "I">>, <<".", "W", "E", "B", "M">>, <<".", "M", "K", "V">>,
     <<".", "F", "L", "V">>, <<".", "W", "M", "V">>, <<".", "M", "4", "V">>,
     <<".", "M", "P", "3">>, <<".", "W", "A", "V">>, <<".", "O", "G", "G">>,
     <<".", "M", "4", "A">>, <<".", "F", "L", "A", "C">>, <<".", "A", "A", "C">>,
     <<".", "W", "M", "A">>, <<".", "J", "p", "G">>, <<".", "M", "p", "4">>,
     <<".", "o", "G", "G">>, <<".", "p", "d", "f">>, <<".", "t", "x", "t">>,
     <<>>, <<"m", "p", "3">>, <<".", "j", "p", "g", "x">>,
     <<".", "m", "p">>, <<".", "P", "D", "F">>}
StemChars == {"a", "B", "."}

\* one file name: a stem of up to MaxStem characters and an ending
InitCategory ==
    /\ InitEmbedWith({<<>>}, {<<>>}, {<<>>}, 0)
    /\ MigrateIdle /\ ResolveIdle /\ SynthIdle /\ OtherIdle
    /\ \E stem \in SeqsUpTo(StemChars, MaxStem), ending \in NameEndings :
          catName = stem \o ending
    /\ catOut = NoCategory

\* a block list of any length up to MaxSynth
InitChunk ==
    /\ InitEmbedWith({<<>>}, {<<>>}, {<<>>}, 0)
    /\ MigrateIdle /\ ResolveIdle /\ SynthIdle /\ CategoryIdle /\ MoveIdle /\ PropsIdle
    /\ PagingIdle /\ ConfigIdle
    /\ \E n \in 0..MaxSynth : blockList = [i \in 1..n |-> i]
    /\ sentChildren = <<>>
    /\ chunkBy = "none"

\* a list of any length up to MaxEntries
InitPaging ==
    /\ InitEmbedWith({<<>>}, {<<>>}, {<<>>}, 0)
    /\ MigrateIdle /\ ResolveIdle /\ SynthIdle /\ CategoryIdle /\ MoveIdle /\ PropsIdle
    /\ ChunkIdle /\ ConfigIdle
    /\ \E n \in 0..MaxEntries : listing = [i \in 1..n |-> i]
    /\ queried = NoQuery
    /\ childPc = "idle"
    /\ start_cursor = 0
    /\ all_children = <<>>

\* any of the environment variables may be unset
InitConfig ==
    /\ InitEmbedWith({<<>>}, {<<>>}, {<<>>}, 0)
    /\ MigrateIdle /\ ResolveIdle /\ SynthIdle /\ CategoryIdle /\ MoveIdle /\ PropsIdle
    /\ ChunkIdle /\ PagingIdle
    /\ env \in SUBSET EnvNames
    /\ ran = NoRun
    /\ sentRequests = <<>>

SpecEmbed == InitEmbed /\ [][EmbedNext]_vars
SpecConfig == InitConfig /\ [][ConfigNext]_vars
SpecPaging == InitPaging /\ [][PagingNext]_vars
SpecChunk == InitChunk /\ [][ChunkNext]_vars
SpecCategory == InitCategory /\ [][CategoryNext]_vars
SpecSynth == InitSynth /\ [][SynthNext]_vars
SpecMigrate == InitMigrate /\ [][MigrateNext]_vars
SpecMove == InitMove /\ [][MoveNext]_vars
SpecResolve == InitResolve /\ [][ResolveNext]_vars
SpecScan == InitScan /\ [][EmbedNext]_vars
SpecTwice == InitTwice /\ [][EmbedNext]_vars

(***************************************************************************)
(* What the claims speak of, stated without the scan of the code.          *)
(***************************************************************************)
\* a heading_3 whose text is the marker
IsMarkerH3(b) == b.type = "heading_3" /\ embed_marker \in Range(b.texts)

\* a heading whose text is not the marker
IsOtherHeading(b) == b.type \in HeadingTypes /\ b.texts # <<embed_marker>>

\* block i lies in a marker section: after a marker heading (or is one), with
\* no differently titled heading from there up to and including i
InMarkerSection(blocks, i) ==
    \E m \in 1..i :
        /\ IsMarkerH3(blocks[m])
        /\ \A k \in (m + 1)..i : ~IsOtherHeading(blocks[k])

\* the contents (ids left out) of the blocks of the marker sections of a page
MarkerSection(blocks) ==
    LET RECURSIVE From(_)
        From(i) == IF i > Len(blocks) THEN <<>>
                   ELSE (IF InMarkerSection(blocks, i) THEN <<Content(blocks[i])>>
                         ELSE <<>>) \o From(i + 1)
    IN From(1)

MarkerHeadings(blocks) == Cardinality({i \in 1..Len(blocks) : IsMarkerH3(blocks[i])})

\* the pages of the source table that have an attachment with a URL
PagesWithFiles == {rows[i].id : i \in {j \in 1..Len(rows) : RowFileData(rows[j].id, rows[j].files) # <<>>}}

\* the attachments of a page as its row's files property lists them
RowFilesOf(page_id) ==
    LET i == CHOOSE j \in 1..Len(rows) : rows[j].id = page_id
    IN RowFileData(page_id, rows[i].files)

Dividers(blocks) == Cardinality({i \in 1..Len(blocks) : blocks[i].type = "divider"})

\* where the URL of a block comes from: a Drive URL names the uploaded copy
SourceUrl(url) == IF IsDriveUrl(url) THEN driveFiles[url.n].src ELSE url

\* the source URLs of the blocks that are neither header nor divider
RECURSIVE BlockSources(_)
BlockSources(blocks) ==
    IF blocks = <<>> THEN <<>>
    ELSE (IF Head(blocks).type \in {"divider", "heading_3"} THEN <<>>
          ELSE <<SourceUrl(Head(blocks).url)>>) \o BlockSources(Tail(blocks))

\* the source URLs a file list calls for: an audio file makes two blocks
RECURSIVE FileSources(_)
FileSources(files) ==
    IF files = <<>> THEN <<>>
    ELSE (IF Head(files).type.major = "audio"
          THEN <<Head(files).url, Head(files).url>> ELSE <<Head(files).url>>)
         \o FileSources(Tail(files))

(***************************************************************************)
(* C1 (SpecTwice).  Two runs in succession over unchanged rows, with no    *)
(* request failing: each page with attachments holds exactly one marker    *)
(* heading, and its marker section after the second run is the one after   *)
(* the first run (same blocks, same URLs, same order).                     *)
(***************************************************************************)
C1_Idempotent ==
    (Len(history) >= 2 /\ faults = 0) =>
        \A p \in PagesWithFiles :
            /\ MarkerHeadings(history[2][p]) = 1
            /\ MarkerSection(history[2][p]) = MarkerSection(history[1][p])

(***************************************************************************)
(* C2 (SpecScan).  _check_existing_embed_blocks marks only blocks of the   *)
(* marker section: the marker heading_3 and the blocks after it up to the  *)
(* next heading with different text; that heading and what follows it are  *)
(* not marked.                                                             *)
(***************************************************************************)
C2_OnlySectionMarked ==
    \A p \in PageIds :
        LET marked == Range(_check_existing_embed_blocks(store[p]).blocks_to_delete)
        IN \A i \in 1..Len(store[p]) :
              store[p][i].id \in marked => InMarkerSection(store[p], i)

(***************************************************************************)
(* C3 (SpecScan).  A page without a heading_3 carrying the marker: the     *)
(* scan returns an empty deletion list, and the pass of the embedder over  *)
(* that page sends no delete_block request, whatever else the page holds.  *)
(***************************************************************************)
NoMarkerOn(p) == \A i \in 1..Len(store[p]) : ~IsMarkerH3(store[p][i])

C3_NoMarkerNoDelete ==
    /\ [](\A p \in PageIds :
            NoMarkerOn(p) =>
                _check_existing_embed_blocks(store[p]).blocks_to_delete = <<>>)
    /\ [][(pc = "loop" /\ idx <= Len(pageFiles) /\ NoMarkerOn(pageFiles[idx].page_id))
            => deleteLog' = deleteLog]_vars

\* a page with another heading and no marker was passed: nothing was deleted
C3_Witness ==
    /\ appendLog # <<>>
    /\ deleteLog = <<>>
    /\ \E i \in 1..Len(store["p1"]) : store["p1"][i] = Stored(i, OtherH3)
    /\ MarkerHeadings(store["p1"]) = 1

(***************************************************************************)
(* C4 (SpecEmbed).  The blocks appended for a row with n >= 1 attachments  *)
(* hold exactly n - 1 dividers, also when two attachments are equal.       *)
(***************************************************************************)
C4_DividersBetween ==
    \A k \in 1..Len(appendLog) :
        Dividers(appendLog[k].blocks) = Len(RowFilesOf(appendLog[k].page)) - 1

(***************************************************************************)
(* C5 (SpecEmbed).  The first appended block is the marker heading_3, and  *)
(* the blocks after it come from the attachments in the order of the row's *)
(* files property.                                                         *)
(***************************************************************************)
C5_HeaderFirstInOrder ==
    \A k \in 1..Len(appendLog) :
        /\ appendLog[k].blocks[1] = header_block
        /\ BlockSources(Tail(appendLog[k].blocks))
              = FileSources(RowFilesOf(appendLog[k].page))

\* blocks were appended for a row with two different attachments
C5_Witness ==
    \E k \in 1..Len(appendLog) :
        LET files == RowFilesOf(appendLog[k].page)
        IN Len(files) = 2 /\ files[1] # files[2] /\ appendLog[k].ok

(***************************************************************************)
(* C6 (SpecEmbed).  A failure on one page does not stop the batch: when    *)
(* the run returns, the pass over every page with attachments has been     *)
(* made, and the run has not raised once the rows were read.               *)
(***************************************************************************)
C6_BatchGoesOn ==
    /\ (pc = "idle" /\ history # <<>>) => Range(fetchLog) = PagesWithFiles
    /\ pc = "loop" => Len(fetchLog) = idx - 1

\* the pass over p1 failed, p2 got its blocks, the run returned
C6_Witness ==
    /\ pc = "idle"
    /\ history # <<>>
    /\ fetchLog = <<"p1", "p2">>
    /\ Len(appendLog) = 1
    /\ appendLog[1].page = "p2"
    /\ appendLog[1].ok

(***************************************************************************)
(* C8 (SpecEmbed).  processed_pages holds a page only if the append of     *)
(* its blocks succeeded.                                                   *)
(***************************************************************************)
C8_ProcessedOnlyIfAppended ==
    \A i \in 1..Len(processed) :
        \E k \in 1..Len(appendLog) :
            appendLog[k].page = processed[i] /\ appendLog[k].ok

(***************************************************************************)
(* C7 (SpecMigrate).  Once migrate_and_copy_with_file_link has read the    *)
(* rows, a row that fails does not stop the batch: when the call is over,  *)
(* the pass over every row has been made and the call has returned the     *)
(* number of rows copied.                                                  *)
(***************************************************************************)
C7_RowFailureIsolated ==
    (migPc \in {"returned", "raised"} /\ (migPc = "raised" => attemptLog # <<>>)) =>
        /\ migPc = "returned"
        /\ [i \in 1..Len(attemptLog) |-> attemptLog[i].id]
              = [i \in 1..Len(migRows) |-> migRows[i].id]
        /\ copied = Cardinality({i \in 1..Len(attemptLog) : attemptLog[i].ok})

(***************************************************************************)
(* What the claims about resolution speak of.                              *)
(***************************************************************************)
\* a Notion URL that expires
TimeLimited(url) ==
    "prod-files-secure.s3" \in url.has
        /\ ("X-Amz-Expires" \in url.has \/ "expiry_time" \in url.has)

\* an attachment with a URL that is hosted elsewhere, or by Notion under a URL
\* that does not expire
Durable(file_info) ==
    /\ file_info.url # EmptyUrl
    /\ file_info.type = "external" \/ ~TimeLimited(file_info.url)

\* an attachment hosted by Notion under a URL that expires
Expiring(file_info) == file_info.type = "file" /\ TimeLimited(file_info.url)

\* the resolver left the attachment as it was and sent nothing
Untouched(r) == ~r.dropped /\ r.url = r.src.url /\ r.net = <<>>

\* the resolver put a URL that does not expire in the place of the source URL
Replaced(r) == ~r.dropped /\ r.url # r.src.url /\ ~TimeLimited(r.url)

SomeRequestFailed(r) == \E i \in 1..Len(r.net) : ~r.net[i].ok

UploadStored(r) == \E k \in 1..Len(r.net) : r.net[k] = Request("upload", TRUE)

CarriesContent(url) == "data:;base64," \in url.has

C11_NoFabricatedUrl ==
    \A i \in 1..Len(resOut.per) :
        LET r == resOut.per[i]
        IN (Expiring(r.src) /\ ~r.dropped /\ r.url # r.src.url)
              => (UploadStored(r) \/ CarriesContent(r.url))

(***************************************************************************)
(* C12 (SpecResolve).  In one row a failed download or upload of one       *)
(* attachment does not stop block synthesis for the others: no attachment  *)
(* whose own requests all succeeded is dropped, and the blocks built are   *)
(* those of every attachment that was not dropped, in the order of the     *)
(* files property.                                                         *)
(***************************************************************************)
\* the URLs of the blocks that stand for attachments
RECURSIVE BlockUrls(_)
BlockUrls(blocks) ==
    IF blocks = <<>> THEN <<>>
    ELSE (IF Head(blocks).type \in {"divider", "heading_3"} THEN <<>>
          ELSE <<Head(blocks).url>>) \o BlockUrls(Tail(blocks))

\* the URLs the attachments that were not dropped call for; the viewer makes
\* two blocks of an audio file
ExpectedUrls(by, per) ==
    Flatten([i \in 1..Len(per) |->
        IF per[i].dropped \/ per[i].url = EmptyUrl THEN <<>>
        ELSE IF by = "file_viewer" /\ _guess_file_type(per[i].src.name).major = "audio"
        THEN <<per[i].url, per[i].url>>
        ELSE <<per[i].url>>])

C12_OthersStillGetBlocks ==
    resOut.by \in {"main", "notion_file_manager", "file_viewer"} =>
        /\ \A i \in 1..Len(resOut.per) :
              (resOut.per[i].src.url # EmptyUrl /\ ~SomeRequestFailed(resOut.per[i]))
                  => ~resOut.per[i].dropped
        /\ BlockUrls(resOut.blocks) = ExpectedUrls(resOut.by, resOut.per)

\* main.add_to_data_manage dropped the first of two files after a failed
\* download and built the block of the second
C12_Witness ==
    /\ resOut.by = "main"
    /\ resFiles = <<AudioS3, AudioS3>>
    /\ resOut.per[1].dropped
    /\ SomeRequestFailed(resOut.per[1])
    /\ Replaced(resOut.per[2])
    /\ BlockUrls(resOut.blocks) = <<resOut.per[2].url>>

(***************************************************************************)
(* C13 (SpecEmbed).  For a row whose only attachment is photo.png at a     *)
(* permanent external URL, the blocks appended are the marker heading and  *)
(* one image block carrying that URL: no caption, no divider.              *)
(***************************************************************************)
C13_OneImageBlock ==
    \A k \in 1..Len(appendLog) :
        RowFilesOf(appendLog[k].page) = <<FileData(appendLog[k].page, PhotoExt)>>
            => appendLog[k].blocks = <<header_block, MediaBlock("image", PhotoExt.url)>>


(***************************************************************************)
(* C14.  is_previewable_url is a first-match classifier: the result for a  *)
(* URL is the result of the first rule, in the order Drive /preview, Drive *)
(* uc?export=view, YouTube, Vimeo, imgur/unsplash, Dropbox, Twitter or     *)
(* SoundCloud, image extension, video extension, audio extension, whose    *)
(* pattern occurs in the URL; a URL in which several occur gets the        *)
(* earliest one's result and a URL in which none occurs gets "".           *)
(***************************************************************************)
Rule(patterns, result) == [patterns |-> patterns, result |-> result]
OrderedRules ==
    <<Rule({"drive.google.com/.+/preview"}, "embed"),
      Rule({"drive.google.com/uc?export=view&id="}, "embed"),
      Rule({"youtube.com", "youtu.be"}, "video"),
      Rule({"vimeo.com"}, "video"),
      Rule({"imgur.com", "unsplash.com"}, "image"),
      Rule({"dropbox.com"}, "image"),
      Rule({"twitter.com", "soundcloud.com"}, "embed"),
      Rule({"backslash any jpg"}, "image"),
      Rule({"backslash any mp4"}, "video"),
      Rule({"backslash any mp3"}, "embed")>>
Matching(url) ==
    {i \in 1..Len(OrderedRules) : OrderedRules[i].patterns \cap url.has # {}}
FirstMatch(url) ==
    IF Matching(url) = {} THEN ""
    ELSE LET first == CHOOSE i \in Matching(url) : \A j \in Matching(url) : i <= j
         IN OrderedRules[first].result

C15_OneBlockForMedia ==
    (synOut.done /\ synFile.type.major \in {"image", "video"}) =>
        LET kind == synFile.type.major
            only == synOut.blocks[1]
        IN /\ Len(synOut.blocks) = 1
           /\ only.url = synOut.url
           /\ only.type = IF synOut.preview = kind THEN kind
                          ELSE IF synOut.preview = "embed" THEN "embed"
                          ELSE "paragraph"
           /\ only.type = "paragraph" =>
                 (only.name = synFile.name /\ Len(only.texts) = 1)

C15_Witness ==
    /\ synOut.done
    /\ synFile.name = "photo.png"
    /\ synFile.url.has = {"ends .png"}
    /\ synOut.preview = "embed"
    /\ synOut.blocks = <<MediaBlock("embed", synOut.url)>>


(***************************************************************************)
(* C16.  In every handler that makes blocks, an audio attachment is        *)
(* rendered as a paragraph link, possibly followed by one embed block, and *)
(* never as a block of type audio.                                         *)
(***************************************************************************)
IsAudioName(name) == _guess_file_type(name).major = "audio"
AudioOnly ==
    /\ resFiles # <<>>
    /\ \A i \in 1..Len(resFiles) :
          IsAudioName(resFiles[i].name) /\ resFiles[i].url # EmptyUrl

C16_AudioIsLinkNeverAudioBlock ==
    /\ (synOut.done /\ synFile.type.major = "audio") =>
          \A i \in 1..Len(synOut.blocks) : synOut.blocks[i].type \in {"paragraph", "embed"}
    /\ (resOut.by # "none" /\ AudioOnly) =>
          \A i \in 1..Len(resOut.blocks) :
              resOut.blocks[i].type \in {"paragraph", "embed", "divider"} \cup HeadingTypes


(***************************************************************************)
(* C17.  An attachment that is neither image, video nor audio is rendered  *)
(* as one link block.  As first stated the link holds the file name and a  *)
(* caption giving the MIME type (C17_OtherHasMimeCaption); what holds is   *)
(* that the one paragraph holds the download text with the file name,      *)
(* links to the URL and has no other text (C17_OtherIsNamedLink).          *)
(***************************************************************************)
OtherDone == synOut.done /\ synFile.type.major \notin {"image", "video", "audio"}

C17_OtherHasMimeCaption ==
    OtherDone =>
        \E i \in 1..Len(synOut.blocks) :
            /\ synOut.blocks[i].type = "paragraph"
            /\ synOut.blocks[i].name = synFile.name
            /\ "type: {mime}" \in Range(synOut.blocks[i].texts)

C17_OtherIsNamedLink ==
    OtherDone =>
        /\ Len(synOut.blocks) = 1
        /\ synOut.blocks[1].type = "paragraph"
        /\ synOut.blocks[1].texts = <<"download {name}">>
        /\ synOut.blocks[1].name = synFile.name
        /\ synOut.blocks[1].url = synOut.url

C17_Witness ==
    /\ OtherDone
    /\ synFile.name = "doc.pdf"
    /\ synOut.url.has = {"drive.google.com/file/d/.../view"}
    /\ Len(synOut.blocks) = 1


(***************************************************************************)
(* C18.  No content block carries an empty URL.  As first stated an        *)
(* attachment whose URL is empty or unknown gets a generic file-link block *)
(* of its own (C18_UrllessGetsFallback); what holds is that such an        *)
(* attachment is left out by get_upload_files and gets no block at all:    *)
(* the content blocks appended for a page are those of the row's           *)
(* attachments that have a URL, and each carries a URL                     *)
(* (C18_UrllessGetsNoBlock).                                               *)
(***************************************************************************)
RawFilesOf(page_id) ==
    LET i == CHOOSE j \in 1..Len(rows) : rows[j].id = page_id
    IN rows[i].files

IsContent(block) == block.type \notin {"divider"} \cup HeadingTypes

ContentBlocks(blocks) == {i \in 1..Len(blocks) : IsContent(blocks[i])}

\* the number of content blocks the attachments with a URL call for
RECURSIVE BlocksCalledFor(_)
BlocksCalledFor(files) ==
    IF files = <<>> THEN 0
    ELSE (IF Head(files).url = EmptyUrl THEN 0
          ELSE IF IsAudioName(Head(files).name) THEN 2 ELSE 1)
         + BlocksCalledFor(Tail(files))

NoEmptyUrlBlock ==
    \A k \in 1..Len(appendLog) :
        \A i \in 1..Len(appendLog[k].blocks) :
            IsContent(appendLog[k].blocks[i]) => appendLog[k].blocks[i].url # EmptyUrl

C18_UrllessGetsFallback ==
    /\ NoEmptyUrlBlock
    /\ \A k \in 1..Len(appendLog) :
          \A j \in 1..Len(RawFilesOf(appendLog[k].page)) :
              RawFilesOf(appendLog[k].page)[j].url = EmptyUrl =>
                  \E i \in 1..Len(appendLog[k].blocks) :
                      /\ appendLog[k].blocks[i].type = "paragraph"
                      /\ appendLog[k].blocks[i].name = RawFilesOf(appendLog[k].page)[j].name

C18_UrllessGetsNoBlock ==
    /\ NoEmptyUrlBlock
    /\ \A k \in 1..Len(appendLog) :
          Cardinality(ContentBlocks(appendLog[k].blocks))
              = BlocksCalledFor(RawFilesOf(appendLog[k].page))

C18_Witness ==
    \E k \in 1..Len(appendLog) :
        /\ RawFilesOf(appendLog[k].page) = <<NoUrl, PhotoExt>>
        /\ Cardinality(ContentBlocks(appendLog[k].blocks)) = 1
        /\ appendLog[k].ok


(***************************************************************************)
(* C19.  get_file_category gives, whatever the case of the letters,        *)
(* "images" for a name ending in a known image extension, "videos" for a   *)
(* known video extension, "audio" for a known audio extension and "others" *)
(* for any other name; the copies in github_sync.py, main.py and           *)
(* notion_file_manager.py give the same category for every name.           *)
(***************************************************************************)
KnownImage ==
    {<<".", "j", "p", "g">>, <<".", "j", "p", "e", "g">>, <<".", "p", "n", "g">>,
     <<".", "g", "i", "f">>, <<".", "b", "m", "p">>, <<".", "w", "e", "b", "p">>,
     <<".", "s", "v", "g">>, <<".", "t", "i", "f", "f">>}
KnownVideo ==
    {<<".", "m", "p", "4">>, <<".", "m", "o", "v">>, <<".", "a", "v", "i">>,
     <<".", "w", "e", "b", "m">>, <<".", "m", "k", "v">>, <<".", "f", "l", "v">>,
     <<".", "w", "m", "v">>, <<".", "m", "4", "v">>}
KnownAudio ==
    {<<".", "m", "p", "3">>, <<".", "w", "a", "v">>, <<".", "o", "g", "g">>,
     <<".", "m", "4", "a">>, <<".", "f", "l", "a", "c">>, <<".", "a", "a", "c">>,
     <<".", "w", "m", "a">>}

\* the endings of a name with capital letters read as small ones
FoldedEndings(name) ==
    {[i \in 1..(Len(name) - k) |-> lower_char(name[k + i])] : k \in 0..Len(name)}

CategoryOf(name) ==
    IF FoldedEndings(name) \cap KnownImage # {} THEN "images"
    ELSE IF FoldedEndings(name) \cap KnownVideo # {} THEN "videos"
    ELSE IF FoldedEndings(name) \cap KnownAudio # {} THEN "audio"
    ELSE "others"

C19_CategoryByExtension ==
    catOut.done =>
        /\ catOut.main = CategoryOf(catName)
        /\ catOut.github_sync = catOut.main
        /\ catOut.notion_file_manager = catOut.main

C19_Witness ==
    /\ catOut.done
    /\ catName = <<"B", ".", "J", "p", "G">>
    /\ catOut.main = "images"
    /\ catOut.github_sync = "images"
    /\ catOut.notion_file_manager = "images"


(***************************************************************************)
(* C20.  Every property name in the properties migration produces for the  *)
(* destination table is a column of the destination table: a source        *)
(* property that the destination lacks is never among them and never makes *)
(* the row raise, the upload column and its link column included.          *)
(***************************************************************************)
SourceNames(page) == {page.props[i].name : i \in 1..Len(page.props)}

C20_OnlyDestinationProperties ==
    /\ \A d \in 1..Len(dest) : DOMAIN dest[d].props \subseteq destKeys
    /\ \A i \in 1..Len(migRows) :
          ((\E a \in 1..Len(attemptLog) : attemptLog[a].id = migRows[i].id)
              /\ SourceNames(migRows[i]) \ destKeys # {})
          => ~NewProps(migRows[i], destKeys, uploadKey).raised


(***************************************************************************)
(* C21.  Migration never deletes the source row: whatever a run of         *)
(* migrate_nonfile_properties, migrate_and_copy_with_file_link or          *)
(* move_uploads_to_data_manage did, every row the source table held        *)
(* before the run is still in the source table, and no delete request was  *)
(* sent for a source page.                                                 *)
(***************************************************************************)
SourceIds == {migRows[i].id : i \in 1..Len(migRows)}

C21_SourceRowsKept ==
    /\ srcLive = SourceIds
    /\ deleteReqs = <<>>


(***************************************************************************)
(* C30.  In migrate_nonfile_properties a delete request is sent for a      *)
(* source page only after its destination page was created: a row whose    *)
(* creation failed, or that has no property to copy, gets no delete        *)
(* request and does not count, and the count returned is the number of     *)
(* destination pages created.                                              *)
(***************************************************************************)
Created == {dest[d].from : d \in 1..Len(dest)}
DeleteSentFor == {deleteReqs[r].id : r \in 1..Len(deleteReqs)}

C30_DeleteOnlyAfterCreate ==
    /\ DeleteSentFor \subseteq Created
    /\ SourceIds \ srcLive \subseteq Created
    /\ \A a \in 1..Len(attemptLog) :
          ~attemptLog[a].ok => attemptLog[a].id \notin DeleteSentFor
    /\ \A i \in 1..Len(migRows) :
          MoveProps(migRows[i], uploadKey) = EmptyDict
              => migRows[i].id \notin DeleteSentFor \cup Created
    /\ moved_count <= Len(deleteReqs)
    /\ migPc = "returned" => moved_count = Len(dest)

C30_Witness ==
    /\ migPc = "returned"
    /\ Len(attemptLog) = 2
    /\ ~attemptLog[1].ok
    /\ attemptLog[2].ok
    /\ moved_count = 1
    /\ DeleteSentFor = {"r2"}


(***************************************************************************)
(* C22.  The properties migration produces never hold a property named     *)
(* after the submission date nor a property whose source type is           *)
(* created_time or last_edited_time, whatever columns the destination has. *)
(***************************************************************************)
ProducedSets == {dest[d].props : d \in 1..Len(dest)} \cup {properties}

C22_DenylistExcluded ==
    \A produced \in ProducedSets :
        /\ "SubmittedAt" \notin DOMAIN produced
        /\ \A k \in DOMAIN produced :
              produced[k].payload \notin {"created_time", "last_edited_time"}

(***************************************************************************)
(* C23.  In the properties migration produces every title is the source    *)
(* row's id: no title of a source property is copied as it is.             *)
(***************************************************************************)
C23_TitleIsRowId ==
    /\ \A d \in 1..Len(dest) :
          \A k \in DOMAIN dest[d].props :
              dest[d].props[k].payload = "title" => dest[d].props[k].val = dest[d].from
    /\ \A k \in DOMAIN properties :
          properties[k].payload = "title" => properties[k].val = pageData.id

(***************************************************************************)
(* C24.  Migration never copies the upload column as files: for a row with *)
(* the upload column the properties produced hold the attachment as one    *)
(* URL in the link column, and no property produced has a files payload.   *)
(***************************************************************************)
C24_UploadAsLinkNeverFiles ==
    /\ \A produced \in ProducedSets :
          \A k \in DOMAIN produced : produced[k].payload # "files"
    /\ \A i \in 1..Len(migRows) :
          (migRows[i].id \in Created /\ uploadKey \in SourceNames(migRows[i])) =>
              \E d \in 1..Len(dest) :
                  /\ dest[d].from = migRows[i].id
                  /\ "File" \in DOMAIN dest[d].props
                  /\ dest[d].props["File"].payload = "url"


(***************************************************************************)
(* C25.  Every request that carries blocks carries at most 100 of them,    *)
(* and a list longer than that is sent in pieces, in order, so that no     *)
(* block is left out.                                                      *)
(***************************************************************************)
C25_ChunkedNothingDropped ==
    chunkBy # "none" =>
        /\ \A r \in 1..Len(sentChildren) : Len(sentChildren[r]) <= ChildrenLimit
        /\ Flatten(sentChildren) = blockList


(***************************************************************************)
(* C26.  Every list read is drained: the rows query_database gives to      *)
(* embed and migrate are all the rows of the table, also when Notion       *)
(* answers in pages, and get_all_block_children returns all the children   *)
(* of the block, in order.                                                 *)
(***************************************************************************)
RowsDrained == queried.done => queried.results = listing
ChildrenDrained == childPc = "returned" => all_children = listing
C26_ListsDrained == RowsDrained /\ ChildrenDrained


(***************************************************************************)
(* C27.  An entry point that finds the API credential or a table id it     *)
(* needs missing sends nothing to Notion.                                  *)
(***************************************************************************)
\* what each entry point reads and puts into its requests
Needs(entry) ==
    IF entry = "src/main.py" THEN {"NOTION_API_KEY"}
    ELSE IF entry = "github_sync.py" THEN {"NOTION_API_KEY", "UPLOADFORM_TABLEKEY"}
    ELSE {"NOTION_API_KEY", "UPLOADFORM_TABLEKEY", "DATA_MANAGE_TABLEKEY"}

ConfigurationMissing ==
    \/ ~(Needs(ran.entry) \subseteq env)
    \/ ran.entry = "src/main.py" /\ ~DatabaseId(ran.database_id)

C27_AbortsBeforeRequests ==
    (ran.entry # "none" /\ ConfigurationMissing) => sentRequests = <<>>


(***************************************************************************)
(* C28.  When embed_files_to_notion_pages has returned, the page of a row  *)
(* that has no attachments holds no marker section: the section made from  *)
(* attachments the row had before is removed.                              *)
(***************************************************************************)
RowsWithoutFiles == {rows[i].id : i \in {j \in 1..Len(rows) : rows[j].files = <<>>}}

C28_StaleSectionRemoved ==
    history # <<>> => \A p \in RowsWithoutFiles : NoMarkerOn(p)

(***************************************************************************)
(* C29.  When the new section is appended to a page, every delete_block    *)
(* request for a block of the page's old section has succeeded.            *)
(***************************************************************************)
C29_AppendOnlyAfterAllDeleted ==
    \A a \in 1..Len(appendLog) : \A d \in 1..Len(deleteLog) :
        deleteLog[d].page = appendLog[a].page => deleteLog[d].ok

====
